---- MODULE Spec2Model ----
(***************************************************************************)
(* Browser-local persistence layer of the flashcard application: the       *)
(* Record Store (localStorage collections), the Media Store (IndexedDB     *)
(* partitions), the domain CRUD functions and the share/export functions,  *)
(* together with the async closures the CRUD functions start and do not    *)
(* await.                                                                  *)
(*                                                                         *)
(* Scheduling.  Every call of an exported function is one action: the      *)
(* synchronous body of the function, every function it calls, and the      *)
(* microtasks that are runnable when the body ends (closures whose awaits  *)
(* are all on already-settled promises), in the order they were queued.    *)
(* A closure that awaits a Media Store operation stays in `tasks`; each    *)
(* TaskStep is the completion of one Media Store request together with the *)
(* continuation that runs up to the closure's next request.  Requests of   *)
(* different closures complete in any order.                               *)
(*                                                                         *)
(* Identifiers.  uuidv4() and generateMediaId() are fresh-name generators: *)
(* they are modelled by the counters nextId and nextMedia.  0 stands for   *)
(* an absent (undefined) identifier.                                       *)
(***************************************************************************)
EXTENDS Integers, Sequences, FiniteSets, TLC

VARIABLES
    users,       \* localStorage 'users':      user id -> User
    sessionId,   \* localStorage 'sessionId':  user id, 0 when the key is absent
    decks,       \* localStorage 'decks':      deck id -> Deck
    themes,      \* localStorage 'themes':     theme id -> Theme
    flashcards,  \* localStorage 'flashcards': flashcard id -> Flashcard
    shareCodes,  \* localStorage 'shareCodes': code -> [deckId, expiryDate]
    studySessions, \* localStorage 'studySessions': session id -> StudySession
    images,      \* IndexedDB imagesStore:     media id -> Blob
    audio,       \* IndexedDB audioStore:      media id -> Blob
    tasks,       \* async closures suspended on a Media Store request, oldest first
    nextId,      \* next value of uuidv4()
    nextMedia,   \* next value of generateMediaId()
    conns,       \* IndexedDB connections that completed operations left open
    now,         \* Date.now()
    doc,         \* the SharedDeckExport the caller holds (last exportDeckToJson result)
    mig,         \* the running migrateExistingMediaToIndexedDB() call, if any
    last         \* the last call of an exported function and what it returned

vars == <<users, sessionId, decks, themes, flashcards, shareCodes, studySessions,
          images, audio, tasks, nextId, nextMedia, conns, now, doc, mig, last>>

-----------------------------------------------------------------------------
(* Bounds of the model.                                                    *)

MaxIds == 4        \* uuidv4() values available to Spec
MaxMedia == 8      \* generateMediaId() values available
MaxUsers == 1      \* accounts that createUser may add
MaxOpen == 2       \* connections that failed requests may leave open
MaxTasks == 2      \* closures already suspended when a call is made
MaxShareIds == 12  \* uuidv4() values available to export, import and resync
MaxDays == 1       \* days the clock runs for
MaxJitter == 1     \* milliseconds past midnight the clock can show
MaxExpiryDays == 1 \* largest expiryDays given to createShareCode
MaxRuns == 2       \* calls of migrateExistingMediaToIndexedDB
MaxStores == 2     \* generateMediaId() values used before the last call with media

-----------------------------------------------------------------------------
(* Strings that may hold media.  A string is kept as the parts the code    *)
(* looks at: what it starts with (scheme), the MIME type between ':' and   *)
(* ';', whether it contains 'base64,' (enc), and the base-64 digits that   *)
(* follow (body, one number 0..63 per digit).  NoStr is undefined.         *)

NoStr == [scheme |-> "", mime |-> "", enc |-> "", body |-> <<>>]

DataUri(mime, body) == [scheme |-> "data", mime |-> mime, enc |-> "base64", body |-> body]

RemoteUrl == [scheme |-> "https", mime |-> "", enc |-> "", body |-> <<>>]

isBase64String(str) ==
    IF str = NoStr THEN FALSE
    ELSE str.scheme = "data" /\ str.enc = "base64"

\* str.split(';')[0].split(':')[1]
ContentType(str) == str.mime

\* atob: four base-64 digits make three bytes.
RECURSIVE atob(_)
atob(digits) ==
    IF Len(digits) < 4 THEN <<>>
    ELSE LET a == digits[1]
             b == digits[2]
             c == digits[3]
             d == digits[4]
         IN  << a * 4 + (b \div 16),
                (b % 16) * 16 + (c \div 4),
                (c % 4) * 64 + d >> \o atob(SubSeq(digits, 5, Len(digits)))

\* btoa, as FileReader.readAsDataURL applies it: three bytes make four digits.
RECURSIVE btoa(_)
btoa(bytes) ==
    IF Len(bytes) < 3 THEN <<>>
    ELSE LET x == bytes[1]
             y == bytes[2]
             z == bytes[3]
         IN  << x \div 4,
                (x % 4) * 16 + (y \div 16),
                (y % 16) * 4 + (z \div 64),
                z % 64 >> \o btoa(SubSeq(bytes, 4, Len(bytes)))

\* The 512-character slices are concatenated again by the Blob constructor.
base64ToBlob(base64, contentType) ==
    [type  |-> IF contentType = "" /\ base64.scheme = "data" THEN base64.mime ELSE contentType,
     bytes |-> atob(base64.body)]

blobToBase64(blob) == DataUri(blob.type, btoa(blob.bytes))

-----------------------------------------------------------------------------
(* Collections are functions whose domain is the set of keys present.      *)

Put(f, k, v) == [x \in (DOMAIN f) \cup {k} |-> IF x = k THEN v ELSE f[x]]

Remove(f, ks) == [x \in (DOMAIN f) \ ks |-> f[x]]

Empty == [x \in {} |-> 0]

\* Object.values(collection): keys in insertion order, which is creation order.
RECURSIVE SortedSeq(_)
SortedSeq(S) ==
    IF S = {} THEN <<>>
    ELSE LET m == CHOOSE x \in S : \A y \in S : x <= y
         IN  <<m>> \o SortedSeq(S \ {m})

RECURSIVE Concat(_)
Concat(ss) == IF ss = <<>> THEN <<>> ELSE Head(ss) \o Concat(Tail(ss))

-----------------------------------------------------------------------------
(* Records.  A field that is undefined in the program holds NoStr (a       *)
(* string), 0 (an identifier or a time) or FALSE.                          *)

NoSide == [text |-> "", image |-> NoStr, imageId |-> 0, audio |-> NoStr, audioId |-> 0]

TextSide(text) == [NoSide EXCEPT !.text = text]

\* Partial<Deck> with nothing set.
NoDeckData ==
    [title |-> "", description |-> "", coverImage |-> NoStr, coverImageId |-> 0,
     tags |-> {}, authorId |-> 0, authorName |-> "", isPublic |-> FALSE,
     isShared |-> FALSE, originalId |-> 0, isPublished |-> FALSE, updatedAt |-> 0]

\* Partial<Theme> with nothing set.
NoThemeData ==
    [deckId |-> 0, title |-> "", description |-> "", coverImage |-> NoStr, coverImageId |-> 0]

\* Partial<Flashcard> with nothing set; hasFront / hasBack say whether the key is given.
NoCardData ==
    [deckId |-> 0, themeId |-> 0, hasFront |-> FALSE, front |-> NoSide,
     hasBack |-> FALSE, back |-> NoSide, lastReviewed |-> 0, reviewCount |-> 0,
     difficulty |-> ""]

\* Partial<StudySession> with nothing set.
NoSessionData ==
    [deckId |-> 0, userId |-> 0, startTime |-> 0, endTime |-> 0, cardsReviewed |-> 0,
     correctAnswers |-> 0, incorrectAnswers |-> 0]

NoDoc ==
    [id |-> 0, originalId |-> 0, title |-> "", description |-> "",
     themes |-> <<>>, flashcards |-> <<>>, createdAt |-> 0, updatedAt |-> 0]

-----------------------------------------------------------------------------
(* The state an exported function works on, as one record, so that a       *)
(* function that calls other functions is the composition of their         *)
(* effects.  ret is what the call returned: ok (a truthy value), threw (an *)
(* Error reached the caller), id (the identifier returned, if any).        *)

World ==
    [users |-> users, sessionId |-> sessionId, decks |-> decks, themes |-> themes,
     flashcards |-> flashcards, shareCodes |-> shareCodes,
     studySessions |-> studySessions, images |-> images,
     audio |-> audio, tasks |-> tasks, nextId |-> nextId, nextMedia |-> nextMedia,
     conns |-> conns, now |-> now, ret |-> [ok |-> FALSE, threw |-> FALSE, id |-> 0]]

Commit(w) ==
    /\ users' = w.users
    /\ sessionId' = w.sessionId
    /\ decks' = w.decks
    /\ themes' = w.themes
    /\ flashcards' = w.flashcards
    /\ shareCodes' = w.shareCodes
    /\ studySessions' = w.studySessions
    /\ images' = w.images
    /\ audio' = w.audio
    /\ tasks' = w.tasks
    /\ nextId' = w.nextId
    /\ nextMedia' = w.nextMedia
    /\ conns' = w.conns
    /\ now' = w.now

Returned(w, id) == [w EXCEPT !.ret = [ok |-> TRUE, threw |-> FALSE, id |-> id]]

Falsy(w) == [w EXCEPT !.ret = [ok |-> FALSE, threw |-> FALSE, id |-> 0]]

Thrown(w) == [w EXCEPT !.ret = [ok |-> FALSE, threw |-> TRUE, id |-> 0]]

\* setLocalStorageItem(key, value): the whole collection is replaced.
setLocalStorageItem(w, key, value) == [w EXCEPT ![key] = value]

-----------------------------------------------------------------------------
(* Users and the session.                                                  *)

createUser(w, username, email, password) ==
    LET id == w.nextId
        newUser == [username |-> username, email |-> email, password |-> password,
                    createdAt |-> w.now]
    IN  Returned([setLocalStorageItem(w, "users", Put(w.users, id, newUser))
                     EXCEPT !.nextId = id + 1], id)

\* The current user's id, 0 for null.
getUser(w) ==
    IF w.sessionId = 0 THEN 0
    ELSE IF w.sessionId \in DOMAIN w.users THEN w.sessionId ELSE 0

hasSession(w) ==
    IF w.sessionId = 0 THEN FALSE ELSE w.sessionId \in DOMAIN w.users

\* setUser(user): the record is stored under user.id and becomes the
\* session.
setUser(w, user) ==
    Returned(setLocalStorageItem(setLocalStorageItem(w, "users", Put(w.users, user.id, user.rec)),
                                 "sessionId", user.id), 0)

\* login that signs the caller out when no user matches.
loginClears(w, email, password) ==
    LET found == {u \in DOMAIN w.users :
                     w.users[u].email = email /\ w.users[u].password = password}
    IN  IF found # {}
        THEN LET user == CHOOSE u \in found : \A v \in found : u <= v
             IN  Returned(setLocalStorageItem(w, "sessionId", user), user)
        ELSE Falsy([w EXCEPT !.sessionId = 0])

login(w, email, password) ==
    LET found == {u \in DOMAIN w.users :
                     w.users[u].email = email /\ w.users[u].password = password}
    IN  IF found # {}
        THEN LET user == CHOOSE u \in found : \A v \in found : u <= v
             IN  Returned(setLocalStorageItem(w, "sessionId", user), user)
        ELSE Falsy(w)

\* localStorage.removeItem('sessionId')
logout(w) == Returned([w EXCEPT !.sessionId = 0], 0)

-----------------------------------------------------------------------------
(* Async closures.  A closure started by a CRUD function is kept as the    *)
(* values it captured (snap: the collection object the function read and   *)
(* then assigned into; id and rec: the record object it goes on changing)  *)
(* and the Media Store requests it still has to await, in program order.   *)
(* write says whether its last continuation ends in setLocalStorageItem.   *)
(* scan is the deck whose flashcards deleteDeck's closure still has to     *)
(* list (0: none).                                                         *)

StoreOp(part, field, src) ==
    [op |-> "store", part |-> part, field |-> field, src |-> src, mid |-> 0]

ExistsOp(part, field, mid, src) ==
    [op |-> "exists", part |-> part, field |-> field, src |-> src, mid |-> mid]

DeleteOp(part, mid) ==
    [op |-> "delete", part |-> part, field |-> "", src |-> NoStr, mid |-> mid]

\* getImage(mid) / getAudio(mid), for the record's field that holds mid.
GetOp(part, field, mid) ==
    [op |-> "get", part |-> part, field |-> field, src |-> NoStr, mid |-> mid]

Closure(kind, coll, snap, id, rec, ops, scan, write) ==
    [kind |-> kind, coll |-> coll, snap |-> snap, id |-> id, rec |-> rec,
     ops |-> ops, scan |-> scan, write |-> write]

Spawn(w, t) == [w EXCEPT !.tasks = Append(@, t)]

\* The requests processFlashcardMedia(side) makes for one medium.  With an
\* inline value it stores it under a fresh id.  Otherwise, with a reference,
\* it asks mediaExists and would store the inline value again under the same
\* id (the ExistsOp carries the value that test looks at).
MediumOps(part, field, inline, ref) ==
    IF isBase64String(inline) THEN <<StoreOp(part, field, inline)>>
    ELSE IF ref # 0 THEN <<ExistsOp(part, field, ref, inline)>>
    ELSE <<>>

processFlashcardMedia(side, which) ==
    MediumOps("images", IF which = "front" THEN "front.imageId" ELSE "back.imageId",
              side.image, side.imageId)
    \o MediumOps("audio", IF which = "front" THEN "front.audioId" ELSE "back.audioId",
                 side.audio, side.audioId)

\* The deleteImage / deleteAudio calls made for one flashcard, in order.
MediaDeletes(card) ==
    (IF card.front.imageId # 0 THEN <<DeleteOp("images", card.front.imageId)>> ELSE <<>>)
    \o (IF card.front.audioId # 0 THEN <<DeleteOp("audio", card.front.audioId)>> ELSE <<>>)
    \o (IF card.back.imageId # 0 THEN <<DeleteOp("images", card.back.imageId)>> ELSE <<>>)
    \o (IF card.back.audioId # 0 THEN <<DeleteOp("audio", card.back.audioId)>> ELSE <<>>)

getFlashcardsByDeck(w, deckId) ==
    SortedSeq({c \in DOMAIN w.flashcards : w.flashcards[c].deckId = deckId})

getThemesByDeck(w, deckId) ==
    SortedSeq({t \in DOMAIN w.themes : w.themes[t].deckId = deckId})

getFlashcardsByTheme(w, themeId) ==
    SortedSeq({c \in DOMAIN w.flashcards : w.flashcards[c].themeId = themeId})

DeckMediaDeletes(w, deckId) ==
    LET cards == getFlashcardsByDeck(w, deckId)
    IN  Concat([i \in 1..Len(cards) |-> MediaDeletes(w.flashcards[cards[i]])])

\* Merge-patch: { ...record, ...updates } for the keys updates carries.
ApplyPatch(rec, updates) ==
    [f \in DOMAIN rec |-> IF f \in updates.keys THEN updates.val[f] ELSE rec[f]]

-----------------------------------------------------------------------------
(* Decks.                                                                  *)

\* createDeck without the test of the current user.
createDeckUnchecked(w, deckData) ==
    LET currentUser == getUser(w)
        id == w.nextId
        newDeck ==
            [title |-> IF deckData.title = "" THEN "Nouveau deck" ELSE deckData.title,
             description |-> deckData.description,
             coverImage |-> deckData.coverImage,
             coverImageId |-> deckData.coverImageId,
             tags |-> deckData.tags,
             authorId |-> currentUser,
             authorName |-> IF currentUser = 0 THEN "" ELSE w.users[currentUser].username,
             isPublic |-> deckData.isPublic,
             createdAt |-> w.now,
             updatedAt |-> w.now,
             isShared |-> deckData.isShared,
             originalId |-> deckData.originalId,
             isPublished |-> deckData.isPublished]
    IN  Returned([setLocalStorageItem(w, "decks", Put(w.decks, id, newDeck))
                     EXCEPT !.nextId = id + 1], id)

createDeck(w, deckData) ==
    LET currentUser == getUser(w)
        id == w.nextId
        newDeck ==
            [title |-> IF deckData.title = "" THEN "Nouveau deck" ELSE deckData.title,
             description |-> deckData.description,
             coverImage |-> deckData.coverImage,
             coverImageId |-> deckData.coverImageId,
             tags |-> deckData.tags,
             authorId |-> currentUser,
             authorName |-> IF currentUser = 0 THEN "" ELSE w.users[currentUser].username,
             isPublic |-> deckData.isPublic,
             createdAt |-> w.now,
             updatedAt |-> w.now,
             isShared |-> deckData.isShared,
             originalId |-> deckData.originalId,
             isPublished |-> deckData.isPublished]
        snap == Put(w.decks, id, newDeck)
        stored == [setLocalStorageItem(w, "decks", snap) EXCEPT !.nextId = id + 1]
    IN  IF currentUser = 0 THEN Thrown(w)
        ELSE Returned(IF isBase64String(newDeck.coverImage)
                      THEN Spawn(stored,
                                 Closure("createDeck", "decks", snap, id, newDeck,
                                         <<StoreOp("images", "coverImageId", newDeck.coverImage)>>,
                                         0, FALSE))
                      ELSE stored, id)

\* The record getDeck returns is decks[deckId]; its closure only reads the Media Store.
getDeck(w, deckId) == IF deckId \in DOMAIN w.decks THEN deckId ELSE 0

updateDeck(w, deckId, updates) ==
    IF deckId \notin DOMAIN w.decks THEN Falsy(w)
    ELSE
    LET deck == w.decks[deckId]
        newCover == /\ "coverImage" \in updates.keys
                    /\ isBase64String(updates.val.coverImage)
                    /\ updates.val.coverImage # deck.coverImage
        \* delete updates.coverImage
        kept == IF newCover THEN [updates EXCEPT !.keys = @ \ {"coverImage"}] ELSE updates
        updatedDeck == [ApplyPatch(deck, kept) EXCEPT !.updatedAt = w.now]
        snap == Put(w.decks, deckId, updatedDeck)
        \* With an old reference the closure first awaits deleteImage; when it
        \* resumes, updates.coverImage is gone and reading it raises, which the
        \* closure's catch swallows.  Without one it reads updates.coverImage
        \* before it first awaits.
        ops == IF deck.coverImageId # 0
               THEN <<DeleteOp("images", deck.coverImageId)>>
               ELSE <<StoreOp("images", "coverImageId", updates.val.coverImage)>>
        stored == setLocalStorageItem(w, "decks", snap)
    IN  Returned(IF newCover
                 THEN Spawn(stored, Closure("updateDeck", "decks", snap, deckId, deck,
                                            ops, 0, FALSE))
                 ELSE stored, deckId)

\* deleteDeck without the pass over the themes.
deleteDeckKeepsThemes(w, deckId) ==
    IF deckId \notin DOMAIN w.decks THEN Falsy(w)
    ELSE
    LET cards == {c \in DOMAIN w.flashcards : w.flashcards[c].deckId = deckId}
        w1 == setLocalStorageItem(w, "flashcards", Remove(w.flashcards, cards))
        w3 == setLocalStorageItem(w1, "decks", Remove(w.decks, {deckId}))
    IN  Returned(w3, deckId)

deleteDeck(w, deckId) ==
    IF deckId \notin DOMAIN w.decks THEN Falsy(w)
    ELSE
    LET deck == w.decks[deckId]
        \* The closure runs up to its first await before the records are removed.
        closure == IF deck.coverImageId # 0
                   THEN Closure("deleteDeck", "", Empty, deckId, deck,
                                <<DeleteOp("images", deck.coverImageId)>>, deckId, FALSE)
                   ELSE Closure("deleteDeck", "", Empty, deckId, deck,
                                DeckMediaDeletes(w, deckId), 0, FALSE)
        cards == {c \in DOMAIN w.flashcards : w.flashcards[c].deckId = deckId}
        thms == {t \in DOMAIN w.themes : w.themes[t].deckId = deckId}
        w1 == setLocalStorageItem(w, "flashcards", Remove(w.flashcards, cards))
        w2 == setLocalStorageItem(w1, "themes", Remove(w.themes, thms))
        w3 == setLocalStorageItem(w2, "decks", Remove(w.decks, {deckId}))
    IN  Returned(Spawn(w3, closure), deckId)

\* setLocalStorageItem when localStorage.setItem throws for the keys of
\* full (quota exceeded): the catch returns false and the stored value stays.
setLocalStorageItemFull(w, key, value, full) ==
    IF key \in full THEN w ELSE setLocalStorageItem(w, key, value)

\* deleteDeck with such a localStorage: it does not look at what
\* setLocalStorageItem returns.
deleteDeckFull(w, deckId, full) ==
    IF deckId \notin DOMAIN w.decks THEN Falsy(w)
    ELSE
    LET deck == w.decks[deckId]
        closure == IF deck.coverImageId # 0
                   THEN Closure("deleteDeck", "", Empty, deckId, deck,
                                <<DeleteOp("images", deck.coverImageId)>>, deckId, FALSE)
                   ELSE Closure("deleteDeck", "", Empty, deckId, deck,
                                DeckMediaDeletes(w, deckId), 0, FALSE)
        cards == {c \in DOMAIN w.flashcards : w.flashcards[c].deckId = deckId}
        thms == {t \in DOMAIN w.themes : w.themes[t].deckId = deckId}
        w1 == setLocalStorageItemFull(w, "flashcards", Remove(w.flashcards, cards), full)
        w2 == setLocalStorageItemFull(w1, "themes", Remove(w.themes, thms), full)
        w3 == setLocalStorageItemFull(w2, "decks", Remove(w.decks, {deckId}), full)
    IN  Returned(Spawn(w3, closure), deckId)

-----------------------------------------------------------------------------
(* Themes.                                                                 *)

createTheme(w, themeData) ==
    LET id == w.nextId
        newTheme ==
            [deckId |-> themeData.deckId,
             title |-> IF themeData.title = "" THEN "Nouveau thème" ELSE themeData.title,
             description |-> themeData.description,
             coverImage |-> themeData.coverImage,
             coverImageId |-> themeData.coverImageId,
             createdAt |-> w.now,
             updatedAt |-> w.now]
        snap == Put(w.themes, id, newTheme)
        stored == [setLocalStorageItem(w, "themes", snap) EXCEPT !.nextId = id + 1]
    IN  Returned(IF isBase64String(newTheme.coverImage)
                 THEN Spawn(stored,
                            Closure("createTheme", "themes", snap, id, newTheme,
                                    <<StoreOp("images", "coverImageId", newTheme.coverImage)>>,
                                    0, FALSE))
                 ELSE stored, id)

updateTheme(w, themeId, updates) ==
    IF themeId \notin DOMAIN w.themes THEN Falsy(w)
    ELSE
    LET theme == w.themes[themeId]
        newCover == /\ "coverImage" \in updates.keys
                    /\ isBase64String(updates.val.coverImage)
                    /\ updates.val.coverImage # theme.coverImage
        kept == IF newCover THEN [updates EXCEPT !.keys = @ \ {"coverImage"}] ELSE updates
        updatedTheme == [ApplyPatch(theme, kept) EXCEPT !.updatedAt = w.now]
        snap == Put(w.themes, themeId, updatedTheme)
        ops == IF theme.coverImageId # 0
               THEN <<DeleteOp("images", theme.coverImageId)>>
               ELSE <<StoreOp("images", "coverImageId", updates.val.coverImage)>>
        stored == setLocalStorageItem(w, "themes", snap)
    IN  Returned(IF newCover
                 THEN Spawn(stored, Closure("updateTheme", "themes", snap, themeId, theme,
                                            ops, 0, FALSE))
                 ELSE stored, themeId)

\* deleteTheme that also removes the flashcards of the theme.
deleteThemeCascade(w, themeId) ==
    IF themeId \notin DOMAIN w.themes THEN Falsy(w)
    ELSE
    LET theme == w.themes[themeId]
        cards == {c \in DOMAIN w.flashcards : w.flashcards[c].themeId = themeId}
        stored == setLocalStorageItem(
                      setLocalStorageItem(w, "flashcards", Remove(w.flashcards, cards)),
                      "themes", Remove(w.themes, {themeId}))
    IN  Returned(IF theme.coverImageId # 0
                 THEN Spawn(stored, Closure("deleteTheme", "", Empty, themeId, theme,
                                            <<DeleteOp("images", theme.coverImageId)>>,
                                            0, FALSE))
                 ELSE stored, themeId)

deleteTheme(w, themeId) ==
    IF themeId \notin DOMAIN w.themes THEN Falsy(w)
    ELSE
    LET theme == w.themes[themeId]
        stored == setLocalStorageItem(w, "themes", Remove(w.themes, {themeId}))
    IN  Returned(IF theme.coverImageId # 0
                 THEN Spawn(stored, Closure("deleteTheme", "", Empty, themeId, theme,
                                            <<DeleteOp("images", theme.coverImageId)>>,
                                            0, FALSE))
                 ELSE stored, themeId)

-----------------------------------------------------------------------------
(* Flashcards.                                                             *)

createFlashcard(w, flashcardData) ==
    LET id == w.nextId
        newFlashcard ==
            [deckId |-> flashcardData.deckId,
             themeId |-> flashcardData.themeId,
             front |-> IF flashcardData.hasFront THEN flashcardData.front ELSE TextSide(""),
             back |-> IF flashcardData.hasBack THEN flashcardData.back ELSE TextSide(""),
             createdAt |-> w.now,
             updatedAt |-> w.now,
             lastReviewed |-> flashcardData.lastReviewed,
             reviewCount |-> flashcardData.reviewCount,
             difficulty |-> flashcardData.difficulty]
        snap == Put(w.flashcards, id, newFlashcard)
        stored == [setLocalStorageItem(w, "flashcards", snap) EXCEPT !.nextId = id + 1]
    IN  Returned(Spawn(stored,
                       Closure("createFlashcard", "flashcards", snap, id, newFlashcard,
                               processFlashcardMedia(newFlashcard.front, "front")
                               \o processFlashcardMedia(newFlashcard.back, "back"),
                               0, TRUE)), id)

updateFlashcard(w, flashcardId, updates) ==
    IF flashcardId \notin DOMAIN w.flashcards THEN Falsy(w)
    ELSE
    LET flashcard == w.flashcards[flashcardId]
        updatedFlashcard == [ApplyPatch(flashcard, updates) EXCEPT !.updatedAt = w.now]
        snap == Put(w.flashcards, flashcardId, updatedFlashcard)
        ops == (IF "front" \in updates.keys
                THEN processFlashcardMedia(updatedFlashcard.front, "front") ELSE <<>>)
               \o (IF "back" \in updates.keys
                   THEN processFlashcardMedia(updatedFlashcard.back, "back") ELSE <<>>)
    IN  Returned(Spawn(setLocalStorageItem(w, "flashcards", snap),
                       Closure("updateFlashcard", "flashcards", snap, flashcardId,
                               updatedFlashcard, ops, 0, TRUE)), flashcardId)

\* deleteFlashcard without the test of the flashcard read: the closure's
\* first read of flashcard.front raises inside its try, nothing is removed,
\* and the function returns true.
deleteFlashcardUnchecked(w, flashcardId) ==
    IF flashcardId \notin DOMAIN w.flashcards THEN Returned(w, flashcardId)
    ELSE
    LET flashcard == w.flashcards[flashcardId]
        stored == setLocalStorageItem(w, "flashcards", Remove(w.flashcards, {flashcardId}))
    IN  Returned(Spawn(stored, Closure("deleteFlashcard", "", Empty, flashcardId, flashcard,
                                       MediaDeletes(flashcard), 0, FALSE)), flashcardId)

deleteFlashcard(w, flashcardId) ==
    IF flashcardId \notin DOMAIN w.flashcards THEN Falsy(w)
    ELSE
    LET flashcard == w.flashcards[flashcardId]
        stored == setLocalStorageItem(w, "flashcards", Remove(w.flashcards, {flashcardId}))
    IN  Returned(Spawn(stored, Closure("deleteFlashcard", "", Empty, flashcardId, flashcard,
                                       MediaDeletes(flashcard), 0, FALSE)), flashcardId)

-----------------------------------------------------------------------------
(* Study sessions.                                                         *)

\* createStudySession that leaves cardsReviewed at 0.
createStudySessionUncounted(w, sessionData) ==
    LET id == w.nextId
        newSession ==
            [deckId |-> sessionData.deckId,
             userId |-> sessionData.userId,
             startTime |-> w.now,
             endTime |-> 0,
             cardsReviewed |-> 0,
             correctAnswers |-> sessionData.correctAnswers,
             incorrectAnswers |-> sessionData.incorrectAnswers]
    IN  Returned([setLocalStorageItem(w, "studySessions", Put(w.studySessions, id, newSession))
                     EXCEPT !.nextId = id + 1], id)

\* The new session has no endTime key, whatever sessionData carries.
createStudySession(w, sessionData) ==
    LET id == w.nextId
        newSession ==
            [deckId |-> sessionData.deckId,
             userId |-> sessionData.userId,
             startTime |-> w.now,
             endTime |-> 0,
             cardsReviewed |-> sessionData.cardsReviewed,
             correctAnswers |-> sessionData.correctAnswers,
             incorrectAnswers |-> sessionData.incorrectAnswers]
    IN  Returned([setLocalStorageItem(w, "studySessions", Put(w.studySessions, id, newSession))
                     EXCEPT !.nextId = id + 1], id)

updateStudySession(w, sessionId_, updates) ==
    IF sessionId_ \notin DOMAIN w.studySessions THEN Falsy(w)
    ELSE LET updatedSession == ApplyPatch(w.studySessions[sessionId_], updates)
         IN  Returned(setLocalStorageItem(w, "studySessions",
                                          Put(w.studySessions, sessionId_, updatedSession)),
                      sessionId_)

getStudySessionsByDeck(w, deckId) ==
    SortedSeq({x \in DOMAIN w.studySessions : w.studySessions[x].deckId = deckId})

MediaFields == <<"front.imageId", "front.audioId", "back.imageId", "back.audioId">>

\* card.front.image and the like, for the field that holds its reference.
Inline(rec, field) ==
    CASE field = "front.imageId" -> rec.front.image
      [] field = "front.audioId" -> rec.front.audio
      [] field = "back.imageId"  -> rec.back.image
      [] field = "back.audioId"  -> rec.back.audio

Ref(rec, field) ==
    CASE field = "front.imageId" -> rec.front.imageId
      [] field = "front.audioId" -> rec.front.audioId
      [] field = "back.imageId"  -> rec.back.imageId
      [] field = "back.audioId"  -> rec.back.audioId

PartOf(field) ==
    IF field \in {"front.imageId", "back.imageId"} THEN "images" ELSE "audio"

\* The records getTheme and getFlashcard return; their closures only read
\* the Media Store.
getTheme(w, themeId) == IF themeId \in DOMAIN w.themes THEN themeId ELSE 0

getFlashcard(w, flashcardId) == IF flashcardId \in DOMAIN w.flashcards THEN flashcardId ELSE 0

\* The closure of getDeck / getTheme, had it stored the record it fills in.
loadCoverImageSaved(w, kind, coll, id) ==
    IF w[coll][id].coverImageId # 0
    THEN Spawn(w, Closure(kind, coll, w[coll], id, w[coll][id],
                          <<GetOp("images", "coverImageId", w[coll][id].coverImageId)>>,
                          0, TRUE))
    ELSE w

\* The closure getDeck and getTheme start for a record with a coverImageId:
\* it awaits getImage and assigns the cover to the object it returned.
loadCoverImage(w, kind, coll, id) ==
    IF w[coll][id].coverImageId # 0
    THEN Spawn(w, Closure(kind, coll, w[coll], id, w[coll][id],
                          <<GetOp("images", "coverImageId", w[coll][id].coverImageId)>>,
                          0, FALSE))
    ELSE w

\* loadFlashcardMedia(card), as getFlashcard calls it: one getImage or
\* getAudio for each reference, front before back, image before audio.
loadFlashcardMedia(w, id) ==
    LET card == w.flashcards[id]
        gets(field) == IF Ref(card, field) # 0
                       THEN <<GetOp(PartOf(field), field, Ref(card, field))>> ELSE <<>>
    IN  Spawn(w, Closure("getFlashcard", "flashcards", w.flashcards, id, card,
                         gets("front.imageId") \o gets("front.audioId")
                         \o gets("back.imageId") \o gets("back.audioId"),
                         0, FALSE))

-----------------------------------------------------------------------------
(* Running the closures.                                                   *)

\* result.imageId = imageId and the like.
SetRef(rec, field, mid) ==
    CASE field = "coverImageId"  -> [rec EXCEPT !.coverImageId = mid]
      [] field = "front.imageId" -> [rec EXCEPT !.front.imageId = mid]
      [] field = "front.audioId" -> [rec EXCEPT !.front.audioId = mid]
      [] field = "back.imageId"  -> [rec EXCEPT !.back.imageId = mid]
      [] field = "back.audioId"  -> [rec EXCEPT !.back.audioId = mid]

\* deck.coverImage = base64, result.front.image = ... and the like: the
\* inline value of the field whose reference is field.
SetInline(rec, field, str) ==
    CASE field = "coverImageId"  -> [rec EXCEPT !.coverImage = str]
      [] field = "front.imageId" -> [rec EXCEPT !.front.image = str]
      [] field = "front.audioId" -> [rec EXCEPT !.front.audio = str]
      [] field = "back.imageId"  -> [rec EXCEPT !.back.image = str]
      [] field = "back.audioId"  -> [rec EXCEPT !.back.audio = str]

\* What a closure's continuation does to its record after a store that
\* succeeded under mid.  updateDeck and updateTheme also assign
\* updates.coverImage, which the enclosing function has deleted by then.
Attach(w, t, field, mid) ==
    IF t.kind \in {"updateDeck", "updateTheme"}
    THEN [SetRef(t.rec, field, mid) EXCEPT !.coverImage = NoStr, !.updatedAt = w.now]
    ELSE SetRef(t.rec, field, mid)

\* The closure's last statements, had they read the collection again and
\* given the stored record the references only.
FinishFresh(w, t) ==
    IF t.write /\ t.id \in DOMAIN w[t.coll]
    THEN LET cur == w[t.coll][t.id]
             merged == IF t.coll = "flashcards"
                       THEN [cur EXCEPT !.front.imageId = t.rec.front.imageId,
                                        !.front.audioId = t.rec.front.audioId,
                                        !.back.imageId = t.rec.back.imageId,
                                        !.back.audioId = t.rec.back.audioId]
                       ELSE [cur EXCEPT !.coverImageId = t.rec.coverImageId]
         IN  setLocalStorageItem(w, t.coll, Put(w[t.coll], t.id, merged))
    ELSE w

\* The closure's last statements: collection[id] = { ...record } and
\* setLocalStorageItem(collection name, collection), when it has them.
Finish(w, t) ==
    IF t.write THEN setLocalStorageItem(w, t.coll, Put(t.snap, t.id, t.rec)) ELSE w

\* openDatabase() resolved: one more connection is open.
openDatabase(w) == [w EXCEPT !.conns = @ + 1]

\* transaction.oncomplete = () => db.close()
close(w) == [w EXCEPT !.conns = @ - 1]

\* The effect on the Media Store of the request a closure awaits, and the
\* closure as its continuation leaves it.  ok: whether the request succeeds
\* (storeImage / storeAudio resolve true) or resolves false.
Await(w, t, ok) ==
    LET o == Head(t.ops)
        mid == w.nextMedia
        blob == base64ToBlob(o.src, ContentType(o.src))
        deckOp == t.kind \in {"createDeck", "createTheme", "updateDeck", "updateTheme"}
        listed == IF t.scan # 0 THEN DeckMediaDeletes(w, t.scan) ELSE <<>>
        rest == [t EXCEPT !.ops = Tail(@) \o listed, !.scan = 0]
        db == openDatabase(w)
    IN  CASE o.op = "store" /\ ok ->
               <<close([db EXCEPT ![o.part] = Put(@, mid, blob), !.nextMedia = mid + 1]),
                 [rest EXCEPT !.rec = Attach(w, t, o.field, mid),
                              !.write = IF deckOp THEN TRUE ELSE @]>>
          [] o.op = "store" /\ ~ok ->
               <<[w EXCEPT !.nextMedia = mid + 1], rest>>
          [] o.op = "exists" ->
               IF o.mid \notin DOMAIN w[o.part] /\ o.src # NoStr /\ isBase64String(o.src)
               THEN <<close(openDatabase(close([db EXCEPT ![o.part] = Put(@, o.mid, blob)]))),
                      rest>>
               ELSE <<close(db), rest>>
          [] o.op = "delete" ->
               <<close([db EXCEPT ![o.part] = Remove(@, {o.mid})]), rest>>
          [] o.op = "get" ->
               IF o.mid \in DOMAIN w[o.part]
               THEN <<close(db), [rest EXCEPT !.rec = SetInline(@, o.field,
                                                                blobToBase64(w[o.part][o.mid]))]>>
               ELSE <<close(db), rest>>

\* Task i's pending request completes and its continuation runs.
StepTask(w, i, ok) ==
    LET r == Await(w, w.tasks[i], ok)
        w1 == r[1]
        t1 == r[2]
        others == [j \in 1..(Len(w.tasks) - 1) |->
                      IF j < i THEN w.tasks[j] ELSE w.tasks[j + 1]]
    IN  IF t1.ops = <<>>
        THEN [Finish(w1, t1) EXCEPT !.tasks = others]
        ELSE [w1 EXCEPT !.tasks[i] = t1]

\* How a Media Store operation settles.  Each one is an async function of
\* the shape
\*     try { const db = await openDatabase();
\*           return new Promise((resolve, reject) => { ... }); }
\*     catch (error) { return false; }          (null for getImage / getAudio)
\* how is what goes wrong: "open", openDatabase rejects, which the await
\* raises inside the try; "request", the request's onerror calls reject,
\* after the function has left the try by returning the promise.
mediaOperation(how) ==
    CASE how = "none"    -> "value"
      [] how = "open"    -> "sentinel"
      [] how = "request" -> "rejected"

\* The flashcard side whose processFlashcardMedia call makes the request.
SideOf(o) ==
    IF o.field \in {"front.imageId", "front.audioId"} THEN "front"
    ELSE IF o.field \in {"back.imageId", "back.audioId"} THEN "back"
    ELSE ""

\* The closure after the catch that is nearest to the await that raised:
\* that of processFlashcardMedia, which gives up the side it works on, or
\* the closure's own, which ends it.
Caught(t) ==
    IF t.kind \in {"createFlashcard", "updateFlashcard"}
    THEN [t EXCEPT !.ops = SelectSeq(Tail(@), LAMBDA x : SideOf(x) # SideOf(Head(t.ops)))]
    ELSE [t EXCEPT !.ops = <<>>, !.scan = 0]

\* The request a closure awaits fails: the Media Store is as it was, and the
\* closure goes on with the sentinel or in its catch.
Fail(w, t, how) ==
    LET o == Head(t.ops)
        w0 == IF how = "request" THEN openDatabase(w) ELSE w
        w1 == IF o.op = "store" THEN [w0 EXCEPT !.nextMedia = @ + 1] ELSE w0
        listed == IF t.scan # 0 THEN DeckMediaDeletes(w, t.scan) ELSE <<>>
    IN  IF mediaOperation(how) = "rejected"
        THEN <<w1, Caught(t)>>
        ELSE <<w1, [t EXCEPT !.ops = Tail(@) \o listed, !.scan = 0]>>

\* Task i's pending request fails and its continuation runs.
FailTask(w, i, how) ==
    LET r == Fail(w, w.tasks[i], how)
        w1 == r[1]
        t1 == r[2]
        others == [j \in 1..(Len(w.tasks) - 1) |->
                      IF j < i THEN w.tasks[j] ELSE w.tasks[j + 1]]
    IN  IF t1.ops = <<>>
        THEN [Finish(w1, t1) EXCEPT !.tasks = others]
        ELSE [w1 EXCEPT !.tasks[i] = t1]

\* The microtasks at the end of a call: every closure that has nothing to
\* wait for runs to its end, oldest first.
RECURSIVE Drain(_)
Drain(w) ==
    LET ready == {i \in 1..Len(w.tasks) : w.tasks[i].ops = <<>>}
    IN  IF ready = {} THEN w
        ELSE LET i == CHOOSE x \in ready : \A y \in ready : x <= y
                 others == [j \in 1..(Len(w.tasks) - 1) |->
                               IF j < i THEN w.tasks[j] ELSE w.tasks[j + 1]]
             IN  Drain([Finish(w, w.tasks[i]) EXCEPT !.tasks = others])

-----------------------------------------------------------------------------
(* Sharing: export, import, resync, share codes.                           *)

\* The document exportDeckToJson builds: uuidv4() is called for the document,
\* then for each theme, then for each flashcard; everything else of a theme
\* or a flashcard is spread from the stored record.
exportDocument(w, deckId) ==
    LET thms == getThemesByDeck(w, deckId)
        cards == getFlashcardsByDeck(w, deckId)
    IN  [id |-> w.nextId,
         originalId |-> deckId,
         title |-> w.decks[deckId].title,
         description |-> w.decks[deckId].description,
         themes |-> [i \in 1..Len(thms) |->
                        [id |-> w.nextId + i, rec |-> w.themes[thms[i]]]],
         flashcards |-> [i \in 1..Len(cards) |->
                            [id |-> w.nextId + Len(thms) + i, rec |-> w.flashcards[cards[i]]]],
         createdAt |-> w.now,
         updatedAt |-> w.now]

exportDeckToJson(w, deckId) ==
    IF getDeck(w, deckId) = 0 THEN Thrown(w)
    ELSE LET exportData == exportDocument(w, deckId)
         IN  Returned([w EXCEPT !.nextId = @ + 1 + Len(exportData.themes)
                                               + Len(exportData.flashcards)],
                      exportData.id)

\* for (const theme of exportData.themes): the state and themeIdMap after it.
RECURSIVE importThemes(_, _, _, _)
importThemes(w, deckId, thms, themeIdMap) ==
    IF thms = <<>> THEN <<w, themeIdMap>>
    ELSE LET theme == Head(thms)
             w1 == createTheme(w, [NoThemeData EXCEPT !.deckId = deckId,
                                                      !.title = theme.rec.title,
                                                      !.description = theme.rec.description])
         IN  importThemes(w1, deckId, Tail(thms), Put(themeIdMap, theme.id, w1.ret.id))

\* for (const card of exportData.flashcards) that hands card.themeId to
\* createFlashcard as it is.
RECURSIVE importFlashcardsKeep(_, _, _, _)
importFlashcardsKeep(w, deckId, cards, themeIdMap) ==
    IF cards = <<>> THEN w
    ELSE LET card == Head(cards)
             w1 == createFlashcard(w, [NoCardData EXCEPT !.deckId = deckId,
                                                         !.themeId = card.rec.themeId,
                                                         !.hasFront = TRUE,
                                                         !.front = card.rec.front,
                                                         !.hasBack = TRUE,
                                                         !.back = card.rec.back,
                                                         !.difficulty = card.rec.difficulty])
         IN  importFlashcardsKeep(w1, deckId, Tail(cards), themeIdMap)

\* for (const card of exportData.flashcards)
RECURSIVE importFlashcards(_, _, _, _)
importFlashcards(w, deckId, cards, themeIdMap) ==
    IF cards = <<>> THEN w
    ELSE LET card == Head(cards)
             newThemeId == IF card.rec.themeId # 0 /\ card.rec.themeId \in DOMAIN themeIdMap
                           THEN themeIdMap[card.rec.themeId] ELSE 0
             w1 == createFlashcard(w, [NoCardData EXCEPT !.deckId = deckId,
                                                         !.themeId = newThemeId,
                                                         !.hasFront = TRUE,
                                                         !.front = card.rec.front,
                                                         !.hasBack = TRUE,
                                                         !.back = card.rec.back,
                                                         !.difficulty = card.rec.difficulty])
         IN  importFlashcards(w1, deckId, Tail(cards), themeIdMap)

\* importDeckFromJson without the comparison of the current user with userId.
importDeckAnyUser(w, exportData, userId) ==
    LET currentUser == getUser(w)
        w1 == createDeck(w, [NoDeckData EXCEPT !.title = exportData.title,
                                               !.description = exportData.description,
                                               !.authorId = currentUser,
                                               !.isPublic = FALSE,
                                               !.isShared = TRUE,
                                               !.originalId = exportData.originalId])
        newDeck == w1.ret.id
        r == importThemes(w1, newDeck, exportData.themes, Empty)
    IN  IF currentUser = 0 THEN Thrown(w)
        ELSE Returned(importFlashcards(r[1], newDeck, exportData.flashcards, r[2]), newDeck)

importDeckFromJson(w, exportData, userId) ==
    LET currentUser == getUser(w)
        w1 == createDeck(w, [NoDeckData EXCEPT !.title = exportData.title,
                                               !.description = exportData.description,
                                               !.authorId = currentUser,
                                               !.authorName = w.users[currentUser].username,
                                               !.isPublic = FALSE,
                                               !.isShared = TRUE,
                                               !.originalId = exportData.originalId])
        newDeck == w1.ret.id
        r == importThemes(w1, newDeck, exportData.themes, Empty)
    IN  IF currentUser = 0 \/ currentUser # userId THEN Thrown(w)
        ELSE Returned(importFlashcards(r[1], newDeck, exportData.flashcards, r[2]), newDeck)

RECURSIVE deleteThemes(_, _)
deleteThemes(w, ids) ==
    IF ids = <<>> THEN w ELSE deleteThemes(deleteTheme(w, Head(ids)), Tail(ids))

RECURSIVE deleteFlashcards(_, _)
deleteFlashcards(w, ids) ==
    IF ids = <<>> THEN w ELSE deleteFlashcards(deleteFlashcard(w, Head(ids)), Tail(ids))

\* Object.values(decks).find(deck => deck.isShared && deck.originalId === exportData.originalId)
importedDeckOf(w, exportData) ==
    LET found == {d \in DOMAIN w.decks :
                     w.decks[d].isShared /\ w.decks[d].originalId = exportData.originalId}
    IN  IF found = {} THEN 0 ELSE CHOOSE d \in found : \A e \in found : d <= e

\* updateDeckFromJson that imports the document as a new deck when no
\* imported deck is found.
updateDeckFromJsonOrImport(w, exportData) ==
    LET importedDeck == importedDeckOf(w, exportData)
        w1 == updateDeck(w, importedDeck,
                         [keys |-> {"title", "description", "updatedAt"},
                          val |-> [NoDeckData EXCEPT !.title = exportData.title,
                                                     !.description = exportData.description,
                                                     !.updatedAt = w.now]])
        w2 == deleteThemes(w1, getThemesByDeck(w1, importedDeck))
        w3 == deleteFlashcards(w2, getFlashcardsByDeck(w2, importedDeck))
        r == importThemes(w3, importedDeck, exportData.themes, Empty)
    IN  IF importedDeck = 0
        THEN createDeckUnchecked(w, [NoDeckData EXCEPT !.title = exportData.title,
                                                      !.isShared = TRUE,
                                                      !.originalId = exportData.originalId])
        ELSE Returned(importFlashcards(r[1], importedDeck, exportData.flashcards, r[2]),
                      importedDeck)

updateDeckFromJson(w, exportData) ==
    LET importedDeck == importedDeckOf(w, exportData)
        w1 == updateDeck(w, importedDeck,
                         [keys |-> {"title", "description", "updatedAt"},
                          val |-> [NoDeckData EXCEPT !.title = exportData.title,
                                                     !.description = exportData.description,
                                                     !.updatedAt = w.now]])
        w2 == deleteThemes(w1, getThemesByDeck(w1, importedDeck))
        w3 == deleteFlashcards(w2, getFlashcardsByDeck(w2, importedDeck))
        r == importThemes(w3, importedDeck, exportData.themes, Empty)
    IN  IF importedDeck = 0 THEN Falsy(w)
        ELSE Returned(importFlashcards(r[1], importedDeck, exportData.flashcards, r[2]),
                      importedDeck)

MsPerDay == 24 * 60 * 60 * 1000

\* `share_${deckId}_${Date.now()}_${expiryDays}`
ShareCode(deckId, time, expiryDays) == <<deckId, time, expiryDays>>

\* createShareCode without the lookup of the deck.
createShareCodeUnchecked(w, deckId, expiryDays) ==
    LET code == <<deckId, w.now, expiryDays>>
        info == [deckId |-> deckId, expiryDate |-> w.now + expiryDays * MsPerDay]
    IN  Returned(setLocalStorageItem(w, "shareCodes", Put(w.shareCodes, code, info)), deckId)

createShareCode(w, deckId, expiryDays) ==
    IF getDeck(w, deckId) = 0 THEN Thrown(w)
    ELSE LET code == ShareCode(deckId, w.now, expiryDays)
             info == [deckId |-> deckId, expiryDate |-> w.now + expiryDays * MsPerDay]
         IN  Returned(setLocalStorageItem(w, "shareCodes", Put(w.shareCodes, code, info)),
                      deckId)

\* getSharedDeck with the expiry instant itself counted as expired.
getSharedDeckEarly(w, code) ==
    IF code \notin DOMAIN w.shareCodes THEN Falsy(w)
    ELSE LET shareInfo == w.shareCodes[code]
         IN  IF shareInfo.expiryDate <= w.now
             THEN Falsy(setLocalStorageItem(w, "shareCodes", Remove(w.shareCodes, {code})))
             ELSE IF getDeck(w, shareInfo.deckId) = 0 THEN Falsy(w)
                  ELSE Returned(w, shareInfo.deckId)

\* getSharedDeck that leaves an expired code in shareCodes.
getSharedDeckKeep(w, code) ==
    IF code \notin DOMAIN w.shareCodes THEN Falsy(w)
    ELSE LET shareInfo == w.shareCodes[code]
         IN  IF shareInfo.expiryDate < w.now THEN Falsy(w)
             ELSE IF getDeck(w, shareInfo.deckId) = 0 THEN Falsy(w)
                  ELSE Returned(w, shareInfo.deckId)

\* Returns the deck (ret.ok, ret.id) or null.
getSharedDeck(w, code) ==
    IF code \notin DOMAIN w.shareCodes THEN Falsy(w)
    ELSE LET shareInfo == w.shareCodes[code]
         IN  IF shareInfo.expiryDate < w.now
             THEN Falsy(setLocalStorageItem(w, "shareCodes", Remove(w.shareCodes, {code})))
             ELSE IF getDeck(w, shareInfo.deckId) = 0 THEN Falsy(w)
                  ELSE Returned(w, shareInfo.deckId)

-----------------------------------------------------------------------------
(* Inputs.                                                                 *)

Png == DataUri("image/png", <<34, 21, 3, 57>>)

Mp3 == DataUri("audio/mpeg", <<18, 52, 60, 7>>)

DemoUser == [username |-> "demo", email |-> "demo@x.com", password |-> "pw"]

Credentials == {<<"demo@x.com", "pw">>, <<"demo@x.com", "wrong">>}

\* A user whose record was made outside createUser.
OtherUser == [username |-> "other", email |-> "other@x.com", password |-> "pw2"]

\* user of setUser: a stored user under another name, or OtherUser under an
\* id of the caller's own.
UserInputs(w) ==
    {[id |-> u, rec |-> [w.users[u] EXCEPT !.username = "renamed"]] : u \in DOMAIN w.users}
    \cup {[id |-> MaxIds + 1,
           rec |-> [username |-> OtherUser.username, email |-> OtherUser.email,
                    password |-> OtherUser.password, createdAt |-> w.now]]}

\* deckData of createDeck: with and without an inline cover, with and without
\* an authorId of the caller's own choosing.
DeckInputs ==
    {[NoDeckData EXCEPT !.title = "T", !.coverImage = c, !.authorId = a] :
        c \in {NoStr, Png}, a \in {0, MaxIds + 1}}

CoverInputs == {[NoDeckData EXCEPT !.title = "T", !.coverImage = c] : c \in {NoStr, Png}}

ThemeInputs ==
    {[NoThemeData EXCEPT !.title = "Th", !.coverImage = c] : c \in {NoStr, Png}}

PlainCard ==
    [NoCardData EXCEPT !.hasFront = TRUE, !.front = TextSide("Q"),
                       !.hasBack = TRUE, !.back = TextSide("A")]

MediaCard ==
    [PlainCard EXCEPT !.front.image = Png, !.back.audio = Mp3]

ImageCard == [PlainCard EXCEPT !.front.image = Png]

AudioCard == [PlainCard EXCEPT !.back.audio = Mp3]

CardInputs == {PlainCard, AudioCard}

\* deckData, themeData and flashcardData with and without the optional keys.
RecordDecks == DeckInputs \cup {[NoDeckData EXCEPT !.description = "about"]}

RecordThemes == ThemeInputs \cup {[NoThemeData EXCEPT !.description = "about"]}

RecordCards == {PlainCard, MediaCard, [NoCardData EXCEPT !.difficulty = "hard"]}

\* sessionData of createStudySession, with and without an endTime.
SessionInputs ==
    {[NoSessionData EXCEPT !.endTime = e, !.cardsReviewed = 3, !.correctAnswers = 2,
                           !.incorrectAnswers = 1] : e \in {0, 7}}

Gif == DataUri("image/gif", <<17, 40, 9, 62>>)

TitlePatches(patches) == {updates \in patches : updates.keys = {"title"}}

SessionPatches ==
    {[keys |-> {"endTime", "cardsReviewed"},
      val |-> [NoSessionData EXCEPT !.endTime = 7, !.cardsReviewed = 4]]}

\* updates of updateDeck: a new title, a new inline cover, or both.
DeckPatches ==
    {[keys |-> k, val |-> [NoDeckData EXCEPT !.title = "T2", !.coverImage = Gif]] :
        k \in {{"title"}, {"coverImage"}, {"title", "coverImage"}}}

ThemePatches ==
    {[keys |-> k, val |-> [NoThemeData EXCEPT !.title = "Th2", !.coverImage = Gif]] :
        k \in {{"title"}, {"coverImage"}, {"title", "coverImage"}}}

\* updates of updateFlashcard: a new front, with or without an inline image.
CardPatches ==
    {[keys |-> {"front"}, val |-> [NoCardData EXCEPT !.front = side]] :
        side \in {TextSide("Q2"), [TextSide("Q2") EXCEPT !.image = Gif]}}

-----------------------------------------------------------------------------
(* The record of the last call.  quiet: no closure was suspended when the  *)
(* call was made.  owned: the Media Store entries the call's subject       *)
(* referenced when the call was made.  kids: how many child records it     *)
(* had.  was: the identifiers of those child records.  exp: the export     *)
(* document handed to the call.  code: the share code handed to it.  keys: *)
(* the keys of the patch handed to it.                                     *)

NoCall ==
    [op |-> "", arg |-> 0, ok |-> FALSE, threw |-> FALSE, id |-> 0, quiet |-> TRUE,
     owned |-> {}, kids |-> 0, was |-> {}, exp |-> NoDoc, code |-> <<0, 0, 0>>,
     keys |-> {}]

Called(op, arg, w2) ==
    [NoCall EXCEPT !.op = op, !.arg = arg, !.ok = w2.ret.ok, !.threw = w2.ret.threw,
                   !.id = w2.ret.id, !.quiet = (tasks = <<>>)]

SideRefs(side) ==
    (IF side.imageId # 0 THEN {<<"images", side.imageId>>} ELSE {})
    \cup (IF side.audioId # 0 THEN {<<"audio", side.audioId>>} ELSE {})

\* The blobs referenced by a deck's cover, its themes' covers and its flashcards' sides.
DeckRefs(w, deckId) ==
    (IF deckId \in DOMAIN w.decks /\ w.decks[deckId].coverImageId # 0
     THEN {<<"images", w.decks[deckId].coverImageId>>} ELSE {})
    \cup {<<"images", w.themes[t].coverImageId>> :
             t \in {x \in DOMAIN w.themes :
                       w.themes[x].deckId = deckId /\ w.themes[x].coverImageId # 0}}
    \cup UNION {SideRefs(w.flashcards[c].front) \cup SideRefs(w.flashcards[c].back) :
                   c \in {x \in DOMAIN w.flashcards : w.flashcards[x].deckId = deckId}}

DeckKids(w, deckId) ==
    Cardinality({t \in DOMAIN w.themes : w.themes[t].deckId = deckId})
    + Cardinality({c \in DOMAIN w.flashcards : w.flashcards[c].deckId = deckId})

Retrievable(ref) ==
    IF ref[1] = "images" THEN ref[2] \in DOMAIN images ELSE ref[2] \in DOMAIN audio

-----------------------------------------------------------------------------
(* Actions: one per exported function, and one for the completion of a     *)
(* Media Store request.                                                    *)

IdsLeft(n) == nextId + n <= MaxIds + 1

MediaLeft(n) == nextMedia + n <= MaxMedia + 1

StoresLeft == nextMedia <= MaxStores

CreateUser ==
    /\ Cardinality(DOMAIN users) < MaxUsers
    /\ IdsLeft(1)
    /\ LET w2 == createUser(World, DemoUser.username, DemoUser.email, DemoUser.password)
       IN  Commit(Drain(w2)) /\ last' = Called("createUser", 0, w2)
    /\ UNCHANGED <<doc, mig>>

Login(email, password) ==
    /\ LET w2 == login(World, email, password)
       IN  Commit(Drain(w2)) /\ last' = Called("login", 0, w2)
    /\ UNCHANGED <<doc, mig>>

SetUser(user) ==
    /\ LET w2 == setUser(World, user)
       IN  Commit(Drain(w2)) /\ last' = Called("setUser", user.id, w2)
    /\ UNCHANGED <<doc, mig>>

Logout ==
    /\ LET w2 == logout(World)
       IN  Commit(Drain(w2)) /\ last' = Called("logout", 0, w2)
    /\ UNCHANGED <<doc, mig>>

CreateDeck(deckData) ==
    /\ IdsLeft(1)
    /\ Len(tasks) < MaxTasks
    /\ LET w2 == createDeck(World, deckData)
       IN  Commit(Drain(w2)) /\ last' = Called("createDeck", deckData.authorId, w2)
    /\ UNCHANGED <<doc, mig>>

DeleteDeck(deckId) ==
    /\ Len(tasks) < MaxTasks
    /\ LET w2 == deleteDeck(World, deckId)
       IN  /\ Commit(Drain(w2))
           /\ last' = [Called("deleteDeck", deckId, w2) EXCEPT
                          !.owned = DeckRefs(World, deckId),
                          !.kids = DeckKids(World, deckId)]
    /\ UNCHANGED <<doc, mig>>

CreateTheme(themeData) ==
    /\ IdsLeft(1)
    /\ Len(tasks) < MaxTasks
    /\ LET w2 == createTheme(World, themeData)
       IN  Commit(Drain(w2)) /\ last' = Called("createTheme", themeData.deckId, w2)
    /\ UNCHANGED <<doc, mig>>

CreateFlashcard(flashcardData) ==
    /\ IdsLeft(1)
    /\ Len(tasks) < MaxTasks
    /\ LET w2 == createFlashcard(World, flashcardData)
       IN  Commit(Drain(w2)) /\ last' = Called("createFlashcard", flashcardData.deckId, w2)
    /\ UNCHANGED <<doc, mig>>

\* The Media Store request that the i-th suspended closure awaits completes.
TaskStep(i) ==
    /\ i \in 1..Len(tasks)
    /\ Head(tasks[i].ops).op = "store" => MediaLeft(1)
    /\ Commit(Drain(StepTask(World, i, TRUE)))
    /\ UNCHANGED <<doc, mig, last>>

\* A Media Store request that the i-th suspended closure awaits fails.
Failures == {"open", "request"}

MediaFails(i, how) ==
    /\ i \in 1..Len(tasks)
    /\ how = "request" => conns < MaxOpen
    /\ Head(tasks[i].ops).op = "store" => MediaLeft(1)
    /\ Commit(Drain(FailTask(World, i, how)))
    /\ last' = [NoCall EXCEPT !.op = Head(tasks[i].ops).op,
                              !.arg = tasks[i].id,
                              !.threw = (mediaOperation(how) = "rejected")]
    /\ UNCHANGED <<doc, mig>>

CreateStudySession(sessionData) ==
    /\ IdsLeft(1)
    /\ LET w2 == createStudySession(World, sessionData)
       IN  Commit(Drain(w2)) /\ last' = Called("createStudySession", sessionData.deckId, w2)
    /\ UNCHANGED <<doc, mig>>

\* The references a record holds for the media fields that updates gives a
\* new inline value.
SideReplaced(side, newSide) ==
    (IF isBase64String(newSide.image) /\ newSide.image # side.image /\ side.imageId # 0
     THEN {<<"images", side.imageId>>} ELSE {})
    \cup (IF isBase64String(newSide.audio) /\ newSide.audio # side.audio /\ side.audioId # 0
          THEN {<<"audio", side.audioId>>} ELSE {})

Replaced(coll, id, updates) ==
    IF id \notin DOMAIN World[coll] THEN {}
    ELSE LET rec == World[coll][id]
         IN  IF coll = "flashcards"
             THEN (IF "front" \in updates.keys
                   THEN SideReplaced(rec.front, updates.val.front) ELSE {})
                  \cup (IF "back" \in updates.keys
                        THEN SideReplaced(rec.back, updates.val.back) ELSE {})
             ELSE IF /\ "coverImage" \in updates.keys
                     /\ isBase64String(updates.val.coverImage)
                     /\ updates.val.coverImage # rec.coverImage
                     /\ rec.coverImageId # 0
                  THEN {<<"images", rec.coverImageId>>} ELSE {}

UpdateDeck(deckId, updates) ==
    /\ Len(tasks) < MaxTasks
    /\ LET w2 == updateDeck(World, deckId, updates)
       IN  /\ Commit(Drain(w2))
           /\ last' = [Called("updateDeck", deckId, w2) EXCEPT !.keys = updates.keys,
                           !.owned = Replaced("decks", deckId, updates)]
    /\ UNCHANGED <<doc, mig>>

UpdateTheme(themeId, updates) ==
    /\ Len(tasks) < MaxTasks
    /\ LET w2 == updateTheme(World, themeId, updates)
       IN  /\ Commit(Drain(w2))
           /\ last' = [Called("updateTheme", themeId, w2) EXCEPT !.keys = updates.keys,
                           !.owned = Replaced("themes", themeId, updates)]
    /\ UNCHANGED <<doc, mig>>

DeleteTheme(themeId) ==
    /\ Len(tasks) < MaxTasks
    /\ LET w2 == deleteTheme(World, themeId)
       IN  Commit(Drain(w2)) /\ last' = Called("deleteTheme", themeId, w2)
    /\ UNCHANGED <<doc, mig>>

UpdateFlashcard(flashcardId, updates) ==
    /\ Len(tasks) < MaxTasks
    /\ LET w2 == updateFlashcard(World, flashcardId, updates)
       IN  /\ Commit(Drain(w2))
           /\ last' = [Called("updateFlashcard", flashcardId, w2) EXCEPT !.keys = updates.keys,
                           !.owned = Replaced("flashcards", flashcardId, updates)]
    /\ UNCHANGED <<doc, mig>>

\* deleteDeck while the writes of the keys of full fail.
DeleteDeckFull(deckId, full) ==
    /\ Len(tasks) < MaxTasks
    /\ LET w2 == deleteDeckFull(World, deckId, full)
       IN  /\ Commit(Drain(w2))
           /\ last' = [Called("deleteDeck", deckId, w2) EXCEPT
                          !.owned = DeckRefs(World, deckId),
                          !.kids = DeckKids(World, deckId)]
    /\ UNCHANGED <<doc, mig>>

DeleteFlashcard(flashcardId) ==
    /\ Len(tasks) < MaxTasks
    /\ LET w2 == deleteFlashcard(World, flashcardId)
       IN  Commit(Drain(w2)) /\ last' = Called("deleteFlashcard", flashcardId, w2)
    /\ UNCHANGED <<doc, mig>>

UpdateStudySession(id, updates) ==
    /\ LET w2 == updateStudySession(World, id, updates)
       IN  /\ Commit(Drain(w2))
           /\ last' = [Called("updateStudySession", id, w2) EXCEPT !.keys = updates.keys]
    /\ UNCHANGED <<doc, mig>>

\* getDeck(deckId): the deck or null, and the closure that loads its cover.
GetDeck(deckId) ==
    /\ Len(tasks) < MaxTasks
    /\ LET w2 == IF getDeck(World, deckId) = 0 THEN Falsy(World)
                 ELSE Returned(loadCoverImage(World, "getDeck", "decks", deckId), deckId)
       IN  Commit(Drain(w2)) /\ last' = Called("getDeck", deckId, w2)
    /\ UNCHANGED <<doc, mig>>

GetTheme(themeId) ==
    /\ Len(tasks) < MaxTasks
    /\ LET w2 == IF getTheme(World, themeId) = 0 THEN Falsy(World)
                 ELSE Returned(loadCoverImage(World, "getTheme", "themes", themeId), themeId)
       IN  Commit(Drain(w2)) /\ last' = Called("getTheme", themeId, w2)
    /\ UNCHANGED <<doc, mig>>

GetFlashcard(flashcardId) ==
    /\ Len(tasks) < MaxTasks
    /\ LET w2 == IF getFlashcard(World, flashcardId) = 0 THEN Falsy(World)
                 ELSE Returned(loadFlashcardMedia(World, flashcardId), flashcardId)
       IN  Commit(Drain(w2)) /\ last' = Called("getFlashcard", flashcardId, w2)
    /\ UNCHANGED <<doc, mig>>

\* getThemesByDeck, getFlashcardsByDeck, getFlashcardsByTheme: the listings
\* filter the collections they read; kids is how many records they return.
ListByParent(deckId) ==
    /\ Commit(World)
    /\ last' = [NoCall EXCEPT !.op = "getFlashcardsByDeck", !.arg = deckId, !.ok = TRUE,
                              !.kids = Len(getThemesByDeck(World, deckId))
                                       + Len(getFlashcardsByDeck(World, deckId)),
                              !.quiet = (tasks = <<>>)]
    /\ UNCHANGED <<doc, mig>>

\* The identifiers of a deck's themes and flashcards.
DeckKidIds(w, deckId) ==
    {t \in DOMAIN w.themes : w.themes[t].deckId = deckId}
    \cup {c \in DOMAIN w.flashcards : w.flashcards[c].deckId = deckId}

ShareIdsLeft(n) == nextId + n <= MaxShareIds + 1

Export(deckId) ==
    /\ ShareIdsLeft(1 + DeckKids(World, deckId))
    /\ LET w2 == exportDeckToJson(World, deckId)
       IN  /\ Commit(Drain(w2))
           /\ last' = Called("exportDeck", deckId, w2)
           /\ doc' = IF w2.ret.ok THEN exportDocument(World, deckId) ELSE doc
    /\ UNCHANGED mig

Import(userId) ==
    /\ doc # NoDoc
    /\ Len(tasks) < MaxTasks
    /\ ShareIdsLeft(1 + Len(doc.themes) + Len(doc.flashcards))
    /\ LET w2 == importDeckFromJson(World, doc, userId)
       IN  /\ Commit(Drain(w2))
           /\ last' = [Called("importDeck", userId, w2) EXCEPT !.exp = doc]
    /\ UNCHANGED <<doc, mig>>

\* The document handed to importDeckFromJson is the caller's: here its k-th
\* flashcard is given the identifier of the document's j-th theme as themeId.
Relink(k, j) ==
    /\ doc # NoDoc
    /\ k \in 1..Len(doc.flashcards)
    /\ j \in 1..Len(doc.themes)
    /\ doc.flashcards[k].rec.themeId # doc.themes[j].id
    /\ doc' = [doc EXCEPT !.flashcards[k].rec.themeId = doc.themes[j].id]
    /\ UNCHANGED <<users, sessionId, decks, themes, flashcards, shareCodes,
                   studySessions, images, audio, tasks, nextId, nextMedia, conns, now,
                   mig,
                   last>>

UpdateFromExport ==
    /\ doc # NoDoc
    /\ Len(tasks) < MaxTasks
    /\ ShareIdsLeft(Len(doc.themes) + Len(doc.flashcards))
    /\ LET w2 == updateDeckFromJson(World, doc)
       IN  /\ Commit(Drain(w2))
           /\ last' = [Called("updateFromExport", doc.originalId, w2) EXCEPT
                          !.exp = doc,
                          !.was = DeckKidIds(World, importedDeckOf(World, doc))]
    /\ UNCHANGED <<doc, mig>>

CreateShareCode(deckId, expiryDays) ==
    /\ LET w2 == createShareCode(World, deckId, expiryDays)
       IN  /\ Commit(Drain(w2))
           /\ last' = [Called("createShareCode", deckId, w2) EXCEPT
                          !.code = ShareCode(deckId, now, expiryDays)]
    /\ UNCHANGED <<doc, mig>>

GetSharedDeck(code) ==
    /\ LET w2 == getSharedDeck(World, code)
       IN  /\ Commit(Drain(w2))
           /\ last' = [Called("getSharedDeck", code[1], w2) EXCEPT !.code = code]
    /\ UNCHANGED <<doc, mig>>

\* The instants the clock shows: midnights and the milliseconds after them.
Instants == {k * MsPerDay + j : k \in 0..MaxDays, j \in 0..MaxJitter}

\* Time passes between two calls.
Tick ==
    /\ \E t \in Instants : t > now /\ now' = t
    /\ UNCHANGED <<users, sessionId, decks, themes, flashcards, shareCodes,
                   studySessions, images, audio, tasks, nextId, nextMedia, conns, doc,
                   mig, last>>

-----------------------------------------------------------------------------
(* The batch migration, an async function: it awaits each of its stores    *)
(* and calls updateFlashcard between them.  mig holds its local variables  *)
(* while it runs: todo, the flashcards the loop has not finished, each     *)
(* with the fields still to store and its `updated` flag; count,           *)
(* migratedCount.  runs and result are the calls that have returned and    *)
(* what the last one returned; orig is what was inline-only when the first *)
(* call was made; had is what the Media Store held when the last call was  *)
(* made.                                                                   *)

\* The fields of a card that pass isBase64String(inline) && !reference.
InlineOnly(rec) ==
    SelectSeq(MediaFields, LAMBDA f : isBase64String(Inline(rec, f)) /\ Ref(rec, f) = 0)

NoMigration ==
    [running |-> FALSE, todo |-> <<>>, count |-> 0, runs |-> 0, result |-> 0, orig |-> {},
     had |-> {}]

\* getFlashcards(): Object.values of the collection as it is read.
getFlashcards(w) ==
    LET ids == SortedSeq(DOMAIN w.flashcards)
    IN  [i \in 1..Len(ids) |->
            [id |-> ids[i], rec |-> w.flashcards[ids[i]],
             fields |-> InlineOnly(w.flashcards[ids[i]]), updated |-> FALSE]]

\* The loop from the head of todo up to its next await, or to the return.
RECURSIVE migrateLoop(_, _)
migrateLoop(w, m) ==
    IF m.todo = <<>>
    THEN <<w, [m EXCEPT !.running = FALSE, !.result = m.count, !.runs = @ + 1]>>
    ELSE LET card == Head(m.todo)
         IN  IF card.fields # <<>> THEN <<w, m>>
             ELSE IF card.updated
                  THEN migrateLoop(updateFlashcard(w, card.id,
                                                   [keys |-> DOMAIN card.rec, val |-> card.rec]),
                                   [m EXCEPT !.todo = Tail(@), !.count = @ + 1])
                  ELSE migrateLoop(w, [m EXCEPT !.todo = Tail(@)])

migrateExistingMediaToIndexedDB(w, m) ==
    migrateLoop(w, [m EXCEPT !.running = TRUE, !.todo = getFlashcards(w), !.count = 0])

\* The store the function awaits completes (ok: storeImage / storeAudio
\* resolved true) and the function runs on.
migrateResume(w, m, ok) ==
    LET card == Head(m.todo)
        field == Head(card.fields)
        mid == w.nextMedia
        src == Inline(card.rec, field)
        blob == base64ToBlob(src, ContentType(src))
        w1 == IF ok
              THEN [w EXCEPT ![PartOf(field)] = Put(@, mid, blob), !.nextMedia = mid + 1]
              ELSE [w EXCEPT !.nextMedia = mid + 1]
        card1 == [card EXCEPT !.fields = Tail(@),
                              !.rec = IF ok THEN SetRef(@, field, mid) ELSE @,
                              !.updated = @ \/ ok]
    IN  migrateLoop(w1, [m EXCEPT !.todo[1] = card1])

\* The store the function awaits rejects (request.onerror of storeImage /
\* storeAudio, whose connection stays open): the await throws into the
\* catch of the function, which returns 0.  todo keeps the flashcards the
\* loop has not reached, count what migratedCount had reached.
migrateReject(w, m) ==
    <<[openDatabase(w) EXCEPT !.nextMedia = @ + 1],
      [m EXCEPT !.running = FALSE, !.todo = Tail(@), !.result = 0, !.runs = @ + 1]>>

\* card.front.image = undefined and the like, for each field of fields.
RECURSIVE Blank(_, _)
Blank(rec, fields) ==
    IF fields = <<>> THEN rec
    ELSE Blank(SetInline(rec, Head(fields), NoStr), Tail(fields))

\* The fields cleanupMigratedData blanks: card.front.imageId &&
\* isBase64String(card.front.image), and the like.
Redundant(rec) ==
    SelectSeq(MediaFields, LAMBDA f : Ref(rec, f) # 0 /\ isBase64String(Inline(rec, f)))

\* for (const card of flashcards) of cleanupMigratedData: the function has
\* no await, so a call runs to its end.
RECURSIVE cleanupLoop(_, _)
cleanupLoop(w, cards) ==
    IF cards = <<>> THEN w
    ELSE LET card == Head(cards)
             fields == Redundant(card.rec)
             cleaned == Blank(card.rec, fields)
         IN  cleanupLoop(IF fields # <<>>
                         THEN updateFlashcard(w, card.id, [keys |-> DOMAIN cleaned,
                                                           val |-> cleaned])
                         ELSE w,
                         Tail(cards))

\* The call returns count, the number of flashcards it updated.
cleanupMigratedData(w) ==
    Returned(cleanupLoop(w, getFlashcards(w)),
             Len(SelectSeq(getFlashcards(w), LAMBDA card : Redundant(card.rec) # <<>>)))

\* What is inline-only in the collection: flashcard, field, payload.
InlineOnlyFields(w) ==
    {[id |-> c, field |-> MediaFields[k], payload |-> Inline(w.flashcards[c], MediaFields[k])] :
        <<c, k>> \in {x \in (DOMAIN w.flashcards) \X (1..4) :
                        /\ isBase64String(Inline(w.flashcards[x[1]], MediaFields[x[2]]))
                        /\ Ref(w.flashcards[x[1]], MediaFields[x[2]]) = 0}}

\* The Media Store entries of w.
Blobs(w) ==
    {<<"images", mid>> : mid \in DOMAIN w.images}
    \cup {<<"audio", mid>> : mid \in DOMAIN w.audio}

MigrateStart ==
    /\ ~mig.running
    /\ mig.runs < MaxRuns
    /\ LET r == migrateExistingMediaToIndexedDB(World, mig)
       IN  /\ Commit(Drain(r[1]))
           /\ mig' = IF mig.runs = 0
                     THEN [r[2] EXCEPT !.orig = InlineOnlyFields(World),
                                       !.had = Blobs(World)]
                     ELSE [r[2] EXCEPT !.had = Blobs(World)]
    /\ last' = [NoCall EXCEPT !.op = "migrate", !.quiet = (tasks = <<>>)]
    /\ UNCHANGED doc

MigrateStep ==
    /\ mig.running
    /\ MediaLeft(1)
    /\ LET r == migrateResume(World, mig, TRUE)
       IN  Commit(Drain(r[1])) /\ mig' = r[2]
    /\ UNCHANGED <<doc, last>>

\* The store the function awaits fails: openDatabase rejects and the store
\* resolves false ("open"), or the put request fails and the store rejects
\* ("request").
MigrateFails(how) ==
    /\ mig.running
    /\ MediaLeft(1)
    /\ how = "request" => conns < MaxOpen
    /\ LET r == IF how = "open" THEN migrateResume(World, mig, FALSE)
                ELSE migrateReject(World, mig)
       IN  Commit(Drain(r[1])) /\ mig' = r[2]
    /\ UNCHANGED <<doc, last>>

Cleanup ==
    /\ Len(tasks) + Cardinality(DOMAIN flashcards) <= MaxTasks
    /\ LET w2 == cleanupMigratedData(World)
       IN  /\ Commit(Drain(w2))
           /\ last' = [NoCall EXCEPT !.op = "cleanup", !.ok = TRUE, !.quiet = (tasks = <<>>)]
    /\ UNCHANGED <<doc, mig>>

\* The store that the i-th suspended closure awaits resolves false.
StoreFails(i) ==
    /\ i \in 1..Len(tasks)
    /\ Head(tasks[i].ops).op = "store"
    /\ MediaLeft(1)
    /\ Commit(Drain(StepTask(World, i, FALSE)))
    /\ UNCHANGED <<doc, mig, last>>

-----------------------------------------------------------------------------
(* The CRUD layer: accounts, decks, themes, flashcards and their closures. *)

Init ==
    /\ users = Empty
    /\ sessionId = 0
    /\ decks = Empty
    /\ themes = Empty
    /\ flashcards = Empty
    /\ shareCodes = Empty
    /\ studySessions = Empty
    /\ images = Empty
    /\ audio = Empty
    /\ tasks = <<>>
    /\ nextId = 1
    /\ nextMedia = 1
    /\ conns = 0
    /\ now = 0
    /\ doc = NoDoc
    /\ mig = NoMigration
    /\ last = NoCall

Next ==
    \/ CreateUser
    \/ sessionId = 0 /\ Login(DemoUser.email, DemoUser.password)
    \/ \E deckData \in CoverInputs : CreateDeck(deckData)
    \/ \E deckId \in DOMAIN decks : DeleteDeck(deckId)
    \/ \E d \in DOMAIN decks, themeData \in ThemeInputs :
          CreateTheme([themeData EXCEPT !.deckId = d])
    \/ \E d \in DOMAIN decks, flashcardData \in CardInputs :
          \E t \in {0} \cup {x \in DOMAIN themes : themes[x].deckId = d} :
             CreateFlashcard([flashcardData EXCEPT !.deckId = d, !.themeId = t])
    \/ \E i \in DOMAIN tasks : TaskStep(i)

Spec == Init /\ [][Next]_vars

-----------------------------------------------------------------------------
(* Sharing: a deck is built, exported, imported and resynchronised.        *)

PlainDeck == [NoDeckData EXCEPT !.title = "T", !.description = "about T"]

PlainTheme == [NoThemeData EXCEPT !.title = "Th"]

ShareCards == {PlainCard, ImageCard}

ImportUsers == {1, 2}

\* One deck is built and exported once; the holder of the document imports
\* it and resynchronises.
NextShare ==
    \/ CreateUser
    \/ sessionId = 0 /\ Login(DemoUser.email, DemoUser.password)
    \/ decks = Empty /\ CreateDeck(PlainDeck)
    \/ \E d \in DOMAIN decks : CreateTheme([PlainTheme EXCEPT !.deckId = d])
    \/ \E d \in DOMAIN decks, flashcardData \in ShareCards :
          \E t \in {0} \cup {x \in DOMAIN themes : themes[x].deckId = d} :
             CreateFlashcard([flashcardData EXCEPT !.deckId = d, !.themeId = t])
    \/ doc = NoDoc /\ \E d \in DOMAIN decks : Export(d)
    \/ \E userId \in ImportUsers : Import(userId)
    \/ UpdateFromExport
    \/ \E i \in DOMAIN tasks : TaskStep(i)

SpecShare == Init /\ [][NextShare]_vars

\* The same deck is exported once and imported under an id that is or is
\* not an account, by a holder who is signed in or has signed out.
NextImport ==
    \/ CreateUser
    \/ sessionId = 0 /\ Login(DemoUser.email, DemoUser.password)
    \/ doc # NoDoc /\ Logout
    \/ decks = Empty /\ CreateDeck(PlainDeck)
    \/ \E d \in DOMAIN decks : CreateTheme([PlainTheme EXCEPT !.deckId = d])
    \/ \E d \in DOMAIN decks, flashcardData \in ShareCards :
          \E t \in {0} \cup {x \in DOMAIN themes : themes[x].deckId = d} :
             CreateFlashcard([flashcardData EXCEPT !.deckId = d, !.themeId = t])
    \/ doc = NoDoc /\ \E d \in DOMAIN decks : Export(d)
    \/ \E userId \in ImportUsers : Import(userId)
    \/ \E i \in DOMAIN tasks : TaskStep(i)

SpecImport == Init /\ [][NextImport]_vars

\* Remapping: a deck with themes and flashcards, in a theme, in none or in a
\* theme that has been deleted, is exported; the document is imported as it
\* is or with flashcards relinked to the document's themes.
NextRemap ==
    \/ CreateUser
    \/ sessionId = 0 /\ Login(DemoUser.email, DemoUser.password)
    \/ decks = Empty /\ CreateDeck(PlainDeck)
    \/ /\ doc = NoDoc
       /\ \E d \in DOMAIN decks : CreateTheme([PlainTheme EXCEPT !.deckId = d])
    \/ /\ doc = NoDoc
       /\ \E d \in DOMAIN decks, t \in {0} \cup DOMAIN themes, flashcardData \in ShareCards :
             CreateFlashcard([flashcardData EXCEPT !.deckId = d, !.themeId = t])
    \/ doc = NoDoc /\ flashcards # Empty /\ \E themeId \in DOMAIN themes : DeleteTheme(themeId)
    \/ doc = NoDoc /\ flashcards # Empty /\ \E d \in DOMAIN decks : Export(d)
    \/ /\ \A d \in DOMAIN decks : ~decks[d].isShared
       /\ \E k \in 1..Len(doc.flashcards), j \in 1..Len(doc.themes) : Relink(k, j)
    \/ /\ \A d \in DOMAIN decks : ~decks[d].isShared
       /\ \E userId \in DOMAIN users : Import(userId)
    \/ \E i \in DOMAIN tasks : TaskStep(i)

SpecRemap == Init /\ [][NextRemap]_vars

-----------------------------------------------------------------------------
(* Sessions: sign-in succeeds or fails, the user signs out, and decks are  *)
(* created and deleted in every state of the session.                      *)

NextAuth ==
    \/ CreateUser
    \/ \E c \in Credentials : Login(c[1], c[2])
    \/ Logout
    \/ \E deckData \in DeckInputs : CreateDeck(deckData)
    \/ \E deckId \in DOMAIN decks \cup {MaxIds + 1} : DeleteDeck(deckId)
    \/ \E i \in DOMAIN tasks : TaskStep(i)

SpecAuth == Init /\ [][NextAuth]_vars

\* The session alone: accounts are created and set, users sign in with
\* matching and non-matching pairs and sign out.
NextSession ==
    \/ CreateUser
    \/ \E user \in UserInputs(World) : SetUser(user)
    \/ \E c \in Credentials \cup {<<OtherUser.email, OtherUser.password>>} : Login(c[1], c[2])
    \/ Logout
    \/ Tick

SpecSession == Init /\ [][NextSession]_vars

-----------------------------------------------------------------------------
(* Deck ids: decks come and go, and are exported and given share codes by  *)
(* ids that are or are not those of a deck.                                *)

NextIds ==
    \/ CreateUser
    \/ sessionId = 0 /\ Login(DemoUser.email, DemoUser.password)
    \/ decks = Empty /\ CreateDeck(PlainDeck)
    \/ \E deckId \in DOMAIN decks : DeleteDeck(deckId)
    \/ doc = NoDoc /\ \E deckId \in 1..MaxIds : Export(deckId)
    \/ /\ shareCodes = Empty
       /\ \E deckId \in 1..MaxIds, expiryDays \in 0..MaxExpiryDays :
             CreateShareCode(deckId, expiryDays)

SpecIds == Init /\ [][NextIds]_vars

-----------------------------------------------------------------------------
(* Share codes: decks come and go, codes are made and looked up, time      *)
(* passes.                                                                 *)

UnknownCode == <<0, 0, 0>>

\* One deck at a time.
NextCode ==
    \/ CreateUser
    \/ sessionId = 0 /\ Login(DemoUser.email, DemoUser.password)
    \/ decks = Empty /\ CreateDeck(PlainDeck)
    \/ \E deckId \in DOMAIN decks : DeleteDeck(deckId)
    \/ /\ shareCodes = Empty
       /\ \E deckId \in DOMAIN decks, expiryDays \in 0..MaxExpiryDays :
             CreateShareCode(deckId, expiryDays)
    \/ \E code \in DOMAIN shareCodes \cup {UnknownCode} : GetSharedDeck(code)
    \/ Tick

SpecCode == Init /\ [][NextCode]_vars

\* How many codes are stored at a time.
MaxCodes == 2

\* One deck, which is deleted once it has MaxCodes codes; codes are made at
\* midnights and looked up at any instant.
NextEvict ==
    \/ CreateUser
    \/ sessionId = 0 /\ Login(DemoUser.email, DemoUser.password)
    \/ decks = Empty /\ shareCodes = Empty /\ CreateDeck(PlainDeck)
    \/ /\ Cardinality(DOMAIN shareCodes) = MaxCodes
       /\ \E deckId \in DOMAIN decks : DeleteDeck(deckId)
    \/ /\ Cardinality(DOMAIN shareCodes) < MaxCodes
       /\ now % MsPerDay = 0
       /\ \E deckId \in DOMAIN decks, expiryDays \in 0..MaxExpiryDays :
             CreateShareCode(deckId, expiryDays)
    \/ \E code \in DOMAIN shareCodes \cup {UnknownCode} : GetSharedDeck(code)
    \/ Tick

SpecEvict == Init /\ [][NextEvict]_vars

-----------------------------------------------------------------------------
(* Records: one deck with themes, flashcards and study sessions, created   *)
(* from inputs with and without the optional keys; themes are deleted.     *)

NextRecords ==
    \/ CreateUser
    \/ sessionId = 0 /\ Login(DemoUser.email, DemoUser.password)
    \/ decks = Empty /\ \E deckData \in RecordDecks : CreateDeck(deckData)
    \/ \E d \in DOMAIN decks, themeData \in RecordThemes :
          CreateTheme([themeData EXCEPT !.deckId = d])
    \/ \E themeId \in DOMAIN themes : DeleteTheme(themeId)
    \/ \E d \in DOMAIN decks, flashcardData \in RecordCards :
          \E t \in {0} \cup {x \in DOMAIN themes : themes[x].deckId = d} :
             CreateFlashcard([flashcardData EXCEPT !.deckId = d, !.themeId = t])
    \/ \E d \in DOMAIN decks, u \in DOMAIN users, sessionData \in SessionInputs :
          CreateStudySession([sessionData EXCEPT !.deckId = d, !.userId = u])
    \/ \E i \in DOMAIN tasks : TaskStep(i)

SpecRecords == Init /\ [][NextRecords]_vars

-----------------------------------------------------------------------------
(* Calls: the functions of the CRUD layer that take an identifier are      *)
(* called with an identifier that is not in the collection; createTheme    *)
(* and createFlashcard are also called with deckId left undefined (0).     *)

\* An identifier uuidv4() never returns here.
Missing == MaxIds + 1

NotIn(coll) == {Missing} \ DOMAIN coll

NextCalls ==
    \/ CreateUser
    \/ sessionId = 0 /\ Login(DemoUser.email, DemoUser.password)
    \/ decks = Empty /\ CreateDeck(PlainDeck)
    \/ /\ themes = Empty
       /\ \E d \in DOMAIN decks \cup {0} : CreateTheme([PlainTheme EXCEPT !.deckId = d])
    \/ /\ flashcards = Empty
       /\ \E d \in DOMAIN decks \cup {0}, t \in DOMAIN themes \cup {0} :
             CreateFlashcard([ImageCard EXCEPT !.deckId = d, !.themeId = t])
    \/ /\ studySessions = Empty
       /\ \E d \in DOMAIN decks, u \in DOMAIN users, sessionData \in SessionInputs :
             CreateStudySession([sessionData EXCEPT !.deckId = d, !.userId = u])
    \/ \E deckId \in NotIn(decks) :
          \/ GetDeck(deckId)
          \/ \E updates \in DeckPatches : UpdateDeck(deckId, updates)
          \/ DeleteDeck(deckId)
    \/ \E themeId \in NotIn(themes) :
          \/ GetTheme(themeId)
          \/ \E updates \in ThemePatches : UpdateTheme(themeId, updates)
          \/ DeleteTheme(themeId)
    \/ \E flashcardId \in NotIn(flashcards) :
          \/ GetFlashcard(flashcardId)
          \/ \E updates \in CardPatches : UpdateFlashcard(flashcardId, updates)
          \/ DeleteFlashcard(flashcardId)
    \/ \E id \in NotIn(studySessions), updates \in SessionPatches :
          UpdateStudySession(id, updates)
    \/ \E i \in DOMAIN tasks : TaskStep(i)

SpecCalls == Init /\ [][NextCalls]_vars

-----------------------------------------------------------------------------
(* A full localStorage: decks with themes and flashcards are deleted while *)
(* some of the writes of deleteDeck fail.                                  *)

Collections == {"flashcards", "themes", "decks"}

NextFull ==
    \/ CreateUser
    \/ sessionId = 0 /\ Login(DemoUser.email, DemoUser.password)
    \/ decks = Empty /\ CreateDeck(PlainDeck)
    \/ \E d \in DOMAIN decks : CreateTheme([PlainTheme EXCEPT !.deckId = d])
    \/ \E d \in DOMAIN decks, flashcardData \in ShareCards :
          CreateFlashcard([flashcardData EXCEPT !.deckId = d])
    \/ \E deckId \in DOMAIN decks, full \in SUBSET Collections :
          DeleteDeckFull(deckId, full)
    \/ \E i \in DOMAIN tasks : TaskStep(i)

SpecFull == Init /\ [][NextFull]_vars

-----------------------------------------------------------------------------
(* Ownership of blobs: a deck with a flashcard that carries an image is    *)
(* cleaned up, exported and imported, and decks and flashcards are         *)
(* deleted.                                                                *)

NextOwn ==
    \/ CreateUser
    \/ sessionId = 0 /\ Login(DemoUser.email, DemoUser.password)
    \/ decks = Empty /\ doc = NoDoc /\ CreateDeck(PlainDeck)
    \/ /\ flashcards = Empty /\ doc = NoDoc
       /\ \E d \in DOMAIN decks : CreateFlashcard([ImageCard EXCEPT !.deckId = d])
    \/ Cleanup
    \/ doc = NoDoc /\ \E d \in DOMAIN decks : Export(d)
    \/ /\ StoresLeft
       /\ \A d \in DOMAIN decks : ~decks[d].isShared
       /\ \E userId \in DOMAIN users : Import(userId)
    \/ \E deckId \in DOMAIN decks : DeleteDeck(deckId)
    \/ \E flashcardId \in DOMAIN flashcards : DeleteFlashcard(flashcardId)
    \/ \E i \in DOMAIN tasks : TaskStep(i)

SpecOwn == Init /\ [][NextOwn]_vars

-----------------------------------------------------------------------------
(* Reads: a deck, a theme and a flashcard with media are read back, one    *)
(* by one and by parent, while the deck's title is updated.                *)

NextReads ==
    \/ CreateUser
    \/ sessionId = 0 /\ Login(DemoUser.email, DemoUser.password)
    \/ decks = Empty /\ \E deckData \in CoverInputs : CreateDeck(deckData)
    \/ /\ themes = Empty
       /\ \E d \in DOMAIN decks, themeData \in ThemeInputs :
             CreateTheme([themeData EXCEPT !.deckId = d])
    \/ /\ flashcards = Empty
       /\ \E d \in DOMAIN decks : CreateFlashcard([ImageCard EXCEPT !.deckId = d])
    \/ \E deckId \in DOMAIN decks, updates \in TitlePatches(DeckPatches) :
          UpdateDeck(deckId, updates)
    \/ \E deckId \in DOMAIN decks : GetDeck(deckId) \/ ListByParent(deckId)
    \/ \E themeId \in DOMAIN themes : GetTheme(themeId)
    \/ \E flashcardId \in DOMAIN flashcards : GetFlashcard(flashcardId)
    \/ \E i \in DOMAIN tasks : TaskStep(i)

SpecReads == Init /\ [][NextReads]_vars

-----------------------------------------------------------------------------
(* Timestamps: a deck and a flashcard with media are created and updated   *)
(* while time passes.                                                      *)

\* A patch of the title that also carries an updatedAt, later than any
\* instant of the clock.
StampedPatches ==
    {[keys |-> {"title", "updatedAt"},
      val |-> [NoDeckData EXCEPT !.title = "T2", !.updatedAt = (MaxDays + 1) * MsPerDay]]}

NextTime ==
    \/ CreateUser
    \/ sessionId = 0 /\ Login(DemoUser.email, DemoUser.password)
    \/ decks = Empty /\ \E deckData \in CoverInputs : CreateDeck(deckData)
    \/ \E deckId \in DOMAIN decks, updates \in TitlePatches(DeckPatches) \cup StampedPatches :
          UpdateDeck(deckId, updates)
    \/ /\ flashcards = Empty
       /\ \E d \in DOMAIN decks : CreateFlashcard([ImageCard EXCEPT !.deckId = d])
    \/ /\ StoresLeft
       /\ \E flashcardId \in DOMAIN flashcards, updates \in CardPatches :
             UpdateFlashcard(flashcardId, updates)
    \/ Tick
    \/ \E i \in DOMAIN tasks : TaskStep(i)

SpecTime == Init /\ [][NextTime]_vars

-----------------------------------------------------------------------------
(* Media: records are created and updated with inline media while the      *)
(* closures of earlier calls are still waiting for the Media Store.        *)

NextMedia ==
    \/ CreateUser
    \/ sessionId = 0 /\ Login(DemoUser.email, DemoUser.password)
    \/ StoresLeft /\ \E deckData \in CoverInputs : CreateDeck(deckData)
    \/ /\ StoresLeft
       /\ \E deckId \in DOMAIN decks, updates \in DeckPatches : UpdateDeck(deckId, updates)
    \/ /\ StoresLeft
       /\ \E d \in DOMAIN decks, themeData \in ThemeInputs :
             CreateTheme([themeData EXCEPT !.deckId = d])
    \/ /\ StoresLeft
       /\ \E themeId \in DOMAIN themes, updates \in ThemePatches :
             UpdateTheme(themeId, updates)
    \/ /\ StoresLeft
       /\ \E d \in DOMAIN decks, flashcardData \in ShareCards :
             CreateFlashcard([flashcardData EXCEPT !.deckId = d])
    \/ /\ StoresLeft
       /\ \E flashcardId \in DOMAIN flashcards, updates \in CardPatches :
             UpdateFlashcard(flashcardId, updates)
    \/ \E i \in DOMAIN tasks : TaskStep(i)

SpecMedia == Init /\ [][NextMedia]_vars

-----------------------------------------------------------------------------
(* Lost updates: one deck, one theme and one flashcard are created with    *)
(* inline media and patched while their closures wait.                     *)

NextLost ==
    \/ CreateUser
    \/ sessionId = 0 /\ Login(DemoUser.email, DemoUser.password)
    \/ decks = Empty /\ \E deckData \in CoverInputs : CreateDeck(deckData)
    \/ \E deckId \in DOMAIN decks, updates \in TitlePatches(DeckPatches) :
          UpdateDeck(deckId, updates)
    \/ /\ themes = Empty
       /\ \E d \in DOMAIN decks, themeData \in ThemeInputs :
             CreateTheme([themeData EXCEPT !.deckId = d])
    \/ \E themeId \in DOMAIN themes, updates \in TitlePatches(ThemePatches) :
          UpdateTheme(themeId, updates)
    \/ /\ flashcards = Empty
       /\ \E d \in DOMAIN decks, flashcardData \in ShareCards :
             CreateFlashcard([flashcardData EXCEPT !.deckId = d])
    \/ /\ StoresLeft
       /\ \E flashcardId \in DOMAIN flashcards, updates \in CardPatches :
             UpdateFlashcard(flashcardId, updates)
    \/ \E i \in DOMAIN tasks : TaskStep(i)

SpecLost == Init /\ [][NextLost]_vars

-----------------------------------------------------------------------------
(* Failures of the Media Store: records are created and updated with       *)
(* inline media, and the requests their closures await succeed or fail.    *)

NextFail ==
    \/ CreateUser
    \/ sessionId = 0 /\ Login(DemoUser.email, DemoUser.password)
    \/ decks = Empty /\ \E deckData \in CoverInputs : CreateDeck(deckData)
    \/ /\ StoresLeft
       /\ \E deckId \in DOMAIN decks, updates \in DeckPatches : UpdateDeck(deckId, updates)
    \/ /\ StoresLeft
       /\ \E d \in DOMAIN decks, themeData \in ThemeInputs :
             CreateTheme([themeData EXCEPT !.deckId = d])
    \/ /\ StoresLeft
       /\ \E themeId \in DOMAIN themes, updates \in ThemePatches :
             UpdateTheme(themeId, updates)
    \/ /\ StoresLeft
       /\ \E d \in DOMAIN decks : CreateFlashcard([MediaCard EXCEPT !.deckId = d])
    \/ /\ StoresLeft
       /\ \E flashcardId \in DOMAIN flashcards, updates \in CardPatches :
             UpdateFlashcard(flashcardId, updates)
    \/ \E i \in DOMAIN tasks : TaskStep(i)
    \/ \E i \in DOMAIN tasks, how \in Failures : MediaFails(i, how)

SpecFail == Init /\ [][NextFail]_vars

-----------------------------------------------------------------------------
(* Migration: flashcards whose stores failed keep their media inline; the  *)
(* batch migration is then run, and run again once its closures are done.  *)

NextMigrate ==
    \/ CreateUser
    \/ sessionId = 0 /\ Login(DemoUser.email, DemoUser.password)
    \/ decks = Empty /\ CreateDeck(PlainDeck)
    \/ /\ mig = NoMigration
       /\ \E d \in DOMAIN decks, flashcardData \in {ImageCard, MediaCard} :
             CreateFlashcard([flashcardData EXCEPT !.deckId = d])
    \/ mig = NoMigration /\ \E i \in DOMAIN tasks : StoreFails(i)
    \/ \E i \in DOMAIN tasks : TaskStep(i)
    \/ tasks = <<>> /\ MigrateStart
    \/ MigrateStep

SpecMigrate == Init /\ [][NextMigrate]_vars

\* The same, with stores of the migration that fail.
NextMigrateFail ==
    \/ NextMigrate
    \/ \E how \in {"open", "request"} : MigrateFails(how)

SpecMigrateFail == Init /\ [][NextMigrateFail]_vars

-----------------------------------------------------------------------------
(* Properties of the CRUD layer (Spec).                                    *)

RecordStore ==
    <<users, sessionId, decks, themes, flashcards, shareCodes, studySessions>>

MediaStore == <<images, audio>>

C2_DeletedDeckMediaGone ==
    (last.op = "deleteDeck" /\ last.ok /\ tasks = <<>>) =>
        \A ref \in last.owned : ~Retrievable(ref)

-----------------------------------------------------------------------------
(* Properties of sharing (SpecShare).                                      *)

\* The front and back texts of a deck's flashcards, in creation order.
CardTexts(w, deckId) ==
    LET cards == getFlashcardsByDeck(w, deckId)
    IN  [i \in 1..Len(cards) |->
            <<w.flashcards[cards[i]].front.text, w.flashcards[cards[i]].back.text>>]

\* The same of an export document.
DocTexts(exportData) ==
    [i \in 1..Len(exportData.flashcards) |->
        <<exportData.flashcards[i].rec.front.text, exportData.flashcards[i].rec.back.text>>]

\* C3: once importDeckFromJson, called with no closure pending, has returned
\* and every closure has run to its end, the new deck differs from the
\* source, shares no theme or flashcard id with it, has the document's title
\* and description, as many themes and flashcards as the document, and the
\* flashcards' front and back texts.
C3_ImportCopiesDeck ==
    (last.op = "importDeck" /\ last.ok /\ last.quiet /\ tasks = <<>>) =>
        /\ last.id \in DOMAIN decks
        /\ last.id # last.exp.originalId
        /\ DeckKidIds(World, last.id) \cap DeckKidIds(World, last.exp.originalId) = {}
        /\ decks[last.id].title = last.exp.title
        /\ decks[last.id].description = last.exp.description
        /\ Len(getThemesByDeck(World, last.id)) = Len(last.exp.themes)
        /\ Len(getFlashcardsByDeck(World, last.id)) = Len(last.exp.flashcards)
        /\ CardTexts(World, last.id) = DocTexts(last.exp)

\* C4: every flashcard of an export document that has a themeId has the id
\* of one of the document's themes as themeId.
C4_ExportSelfContained ==
    \A i \in DOMAIN doc.flashcards :
        doc.flashcards[i].rec.themeId # 0 =>
            \E j \in DOMAIN doc.themes : doc.themes[j].id = doc.flashcards[i].rec.themeId

\* C5: once updateDeckFromJson has returned true and every closure, earlier
\* ones included, has run to its end, the deck has none of the themes and
\* flashcards it had before, and as many themes and flashcards as the
\* document, with the document's texts.
C5_ResyncMatchesExport ==
    (last.op = "updateFromExport" /\ last.ok /\ tasks = <<>>) =>
        /\ DeckKidIds(World, last.id) \cap last.was = {}
        /\ Len(getThemesByDeck(World, last.id)) = Len(last.exp.themes)
        /\ Len(getFlashcardsByDeck(World, last.id)) = Len(last.exp.flashcards)
        /\ CardTexts(World, last.id) = DocTexts(last.exp)

\* C11: updateDeckFromJson never adds a deck; when no stored deck is shared
\* with the document's originalId it returns false and changes no collection
\* of the Record Store, nor the Media Store, nor the pending closures.
C11_ResyncNeedsImportedDeck ==
    [][UpdateFromExport =>
          /\ DOMAIN decks' \subseteq DOMAIN decks
          /\ importedDeckOf(World, doc) = 0 =>
                /\ ~last'.ok
                /\ ~last'.threw
                /\ UNCHANGED <<RecordStore, MediaStore, tasks>>
      ]_vars

\* updateDeckFromJson has just returned false although the deck the document
\* was exported from is stored.
C11_Witness ==
    /\ last.op = "updateFromExport"
    /\ ~last.ok
    /\ doc.originalId \in DOMAIN decks
    /\ importedDeckOf(World, doc) = 0

-----------------------------------------------------------------------------
(* Properties of imports (SpecImport).                                     *)

\* C9: importDeckFromJson throws and adds no deck, theme or flashcard unless
\* the current user is userId; when it returns, the deck it made is owned by
\* userId, is shared, is not public and has the document's originalId.
C9_ImportNeedsMatchingUser ==
    [][\A userId \in ImportUsers :
          Import(userId) =>
             IF getUser(World) = 0 \/ getUser(World) # userId
             THEN /\ last'.threw
                  /\ UNCHANGED <<decks, themes, flashcards>>
             ELSE /\ last'.ok
                  /\ last'.id \in DOMAIN decks' \ DOMAIN decks
                  /\ decks'[last'.id].authorId = userId
                  /\ decks'[last'.id].isShared
                  /\ ~decks'[last'.id].isPublic
                  /\ decks'[last'.id].originalId = doc.originalId
      ]_vars

\* An import has just been refused to a signed-in caller who gave another id.
C9_Witness ==
    /\ last.op = "importDeck"
    /\ last.threw
    /\ sessionId # 0
    /\ last.arg # sessionId

-----------------------------------------------------------------------------
(* Properties of share codes (SpecCode, SpecEvict).                                   *)

\* C7: a lookup of a stored code <<deck, t0, d>> whose deck exists returns
\* that deck when now <= t0 + d * 86400000 and null when now is later.
C7_ShareCodeExpiry ==
    [][\A code \in DOMAIN shareCodes :
          (GetSharedDeck(code) /\ code[1] \in DOMAIN decks) =>
             IF now <= code[2] + code[3] * MsPerDay
             THEN last'.ok /\ last'.id = code[1]
             ELSE ~last'.ok /\ ~last'.threw
      ]_vars

\* A lookup has just returned the deck at the very instant the code, made for
\* one day or more, expires.
C7_Witness ==
    /\ last.op = "getSharedDeck"
    /\ last.ok
    /\ last.code[3] > 0
    /\ now = last.code[2] + last.code[3] * MsPerDay

\* C28: a lookup removes its code from shareCodes exactly when the code is
\* stored and its expiry date is before now, and leaves every other code; a
\* lookup of an unknown or of a non-expired code leaves shareCodes as it
\* was; and a code leaves shareCodes only by an expired lookup of that code.
C28_EvictOnExpiredLookup ==
    [][/\ \A code \in DOMAIN shareCodes \cup {UnknownCode} :
             GetSharedDeck(code) =>
                shareCodes' = IF /\ code \in DOMAIN shareCodes
                                 /\ shareCodes[code].expiryDate < now
                              THEN Remove(shareCodes, {code})
                              ELSE shareCodes
       /\ \A code \in DOMAIN shareCodes \ DOMAIN shareCodes' :
             /\ GetSharedDeck(code)
             /\ shareCodes[code].expiryDate < now
      ]_vars

\* A lookup of a code made for a deck that is still stored has just returned
\* null after the code's expiry, and the code is no longer in shareCodes
\* while another code is.
C28_Witness ==
    /\ last.op = "getSharedDeck"
    /\ ~last.ok
    /\ last.code # UnknownCode
    /\ last.code[1] \in DOMAIN decks
    /\ now > last.code[2] + last.code[3] * MsPerDay
    /\ last.code \notin DOMAIN shareCodes
    /\ shareCodes # Empty

-----------------------------------------------------------------------------
(* Properties of sessions (SpecAuth).                                      *)

-----------------------------------------------------------------------------
(* Properties of deck ids (SpecIds).                                       *)

\* C10: exportDeckToJson and createShareCode throw when deckId is not in
\* decks, and then no collection of the Record Store changes.
C10_MissingDeckThrows ==
    [][\A deckId \in (1..MaxIds) \ DOMAIN decks :
          (Export(deckId) \/ \E expiryDays \in 0..MaxExpiryDays :
                                CreateShareCode(deckId, expiryDays)) =>
             /\ last'.threw
             /\ UNCHANGED <<RecordStore, doc>>
      ]_vars

\* createShareCode has just thrown for a deck that was deleted.
C10_Witness ==
    /\ last.op = "createShareCode"
    /\ last.threw
    /\ last.arg < nextId
    /\ last.arg \notin DOMAIN users
    /\ doc = NoDoc

-----------------------------------------------------------------------------
(* Properties of calls with identifiers that are not stored (SpecCalls).   *)

\* C21: createTheme and createFlashcard called with deckId undefined throw,
\* and leave the Record Store and the pending closures as they were.
C21_CreateNeedsDeck ==
    [][/\ CreateTheme([PlainTheme EXCEPT !.deckId = 0]) =>
             last'.threw /\ RecordStore' = RecordStore /\ tasks' = tasks
       /\ \A t \in DOMAIN themes \cup {0} :
             CreateFlashcard([ImageCard EXCEPT !.deckId = 0, !.themeId = t]) =>
                last'.threw /\ RecordStore' = RecordStore /\ tasks' = tasks
      ]_vars

\* The call just made returned null or false, did not throw, left the Record
\* Store and the Media Store as they were and started no closure.
NotFound ==
    /\ ~last'.ok
    /\ ~last'.threw
    /\ RecordStore' = RecordStore
    /\ MediaStore' = MediaStore
    /\ tasks' = tasks

\* C24: the get, update and delete functions, called with an identifier
\* that is not in their collection, return null or false without throwing,
\* change nothing in the Record Store or the Media Store and start no
\* Media Store operation.
C24_NotFoundIsQuiet ==
    [][/\ \A id \in NotIn(decks) :
             (\/ GetDeck(id)
              \/ \E updates \in DeckPatches : UpdateDeck(id, updates)
              \/ DeleteDeck(id)) => NotFound
       /\ \A id \in NotIn(themes) :
             (\/ GetTheme(id)
              \/ \E updates \in ThemePatches : UpdateTheme(id, updates)
              \/ DeleteTheme(id)) => NotFound
       /\ \A id \in NotIn(flashcards) :
             (\/ GetFlashcard(id)
              \/ \E updates \in CardPatches : UpdateFlashcard(id, updates)
              \/ DeleteFlashcard(id)) => NotFound
       /\ \A id \in NotIn(studySessions) :
             (\E updates \in SessionPatches : UpdateStudySession(id, updates)) => NotFound
      ]_vars

\* deleteFlashcard has just returned false for an identifier that is not
\* stored, with a deck and a flashcard stored and a closure pending.
C24_Witness ==
    /\ last.op = "deleteFlashcard"
    /\ last.arg \notin DOMAIN flashcards
    /\ ~last.ok
    /\ decks # Empty
    /\ flashcards # Empty
    /\ tasks # <<>>

-----------------------------------------------------------------------------
(* Properties of a full localStorage (SpecFull).                           *)

\* C22: whichever writes of deleteDeck fail, the state it leaves has the
\* deck and its themes and flashcards all removed or all still stored.
C22_DeleteDeckAllOrNothing ==
    [][\A deckId \in DOMAIN decks, full \in SUBSET Collections :
          DeleteDeckFull(deckId, full) =>
             \/ deckId \notin DOMAIN decks' /\ DeckKidIds(World', deckId) = {}
             \/ /\ deckId \in DOMAIN decks'
                /\ DeckKidIds(World', deckId) = DeckKidIds(World, deckId)
      ]_vars

-----------------------------------------------------------------------------
(* Properties of the ownership of blobs (SpecOwn).                         *)

\* The Media Store entries that the stored records of w reference.
AllRefs(w) ==
    {<<"images", w.decks[d].coverImageId>> : d \in {x \in DOMAIN w.decks :
                                                      w.decks[x].coverImageId # 0}}
    \cup {<<"images", w.themes[t].coverImageId>> : t \in {x \in DOMAIN w.themes :
                                                          w.themes[x].coverImageId # 0}}
    \cup UNION {SideRefs(w.flashcards[c].front) \cup SideRefs(w.flashcards[c].back) :
                   c \in DOMAIN w.flashcards}

\* C23: no step removes from the Media Store a blob that a record stored
\* after the step references.
C23_DeleteOnlyOwnedBlobs ==
    [][(Blobs(World) \ Blobs(World')) \cap AllRefs(World') = {}]_vars

\* C27: cleanupMigratedData blanks the inline value of a flashcard's field
\* only when the blob of the field's reference is in the Media Store.
C27_CleanupNeedsBlob ==
    [][Cleanup =>
          \A c \in DOMAIN flashcards, k \in 1..4 :
             LET f == MediaFields[k]
             IN  (/\ isBase64String(Inline(flashcards[c], f))
                  /\ c \in DOMAIN flashcards'
                  /\ ~isBase64String(Inline(flashcards'[c], f))) =>
                    Ref(flashcards[c], f) \in DOMAIN World[PartOf(f)]
      ]_vars

\* C34: identifiers are never used twice, so a record that a delete call
\* removed can only come back by the completion of a deferred write: no
\* such completion puts into decks, themes or flashcards a record that was
\* not there.
C34_DeletedStaysDeleted ==
    [][\A i \in DOMAIN tasks :
          TaskStep(i) =>
             \A coll \in {"decks", "themes", "flashcards"} :
                DOMAIN World'[coll] \subseteq DOMAIN World[coll]
      ]_vars

\* C26: when a request of processFlashcardMedia completes for a medium of a
\* flashcard's side: with an inline value and no reference, or with an
\* inline value and a reference whose blob is missing, the payload is in the
\* Media Store afterwards under an identifier that was not there; with a
\* reference whose blob is present, the Media Store is left as it was.
C26_ReconcileSide ==
    [][\A i \in DOMAIN tasks :
          LET t == tasks[i]
              o == Head(t.ops)
              ref == Ref(t.rec, o.field)
              inline == Inline(t.rec, o.field)
              present == ref # 0 /\ ref \in DOMAIN World[o.part]
          IN  (/\ TaskStep(i)
               /\ t.kind \in {"createFlashcard", "updateFlashcard"}
               /\ t.ops # <<>>) =>
                 /\ (isBase64String(inline) /\ ~present) =>
                       \E mid \in DOMAIN World'[o.part] \ DOMAIN World[o.part] :
                          World'[o.part][mid] = base64ToBlob(inline, ContentType(inline))
                 /\ present =>
                       /\ images' = images
                       /\ audio' = audio
      ]_vars

-----------------------------------------------------------------------------
(* Properties of the remapping of themes (SpecRemap).                      *)

\* C31: importDeckFromJson that returns makes the deck, then the themes of
\* the document, then its flashcards, and the themes and flashcards it has
\* stored when it returns have the new deck as deckId; a flashcard whose
\* themeId in the document is the identifier of a theme of the document has
\* the copy of that theme as themeId, and any other flashcard has none.
C31_ImportRemapsThemes ==
    [][\A userId \in DOMAIN users :
          (Import(userId) /\ last'.ok) =>
             LET newDeck == nextId
                 nT == Len(doc.themes)
                 nC == Len(doc.flashcards)
                 newTheme(j) == nextId + j
                 newCard(k) == nextId + nT + k
             IN  /\ last'.id = newDeck
                 /\ DOMAIN themes' \ DOMAIN themes \subseteq {newTheme(j) : j \in 1..nT}
                 /\ DOMAIN flashcards' \ DOMAIN flashcards \subseteq {newCard(k) : k \in 1..nC}
                 /\ \A j \in {x \in 1..nT : newTheme(x) \in DOMAIN themes'} :
                       /\ themes'[newTheme(j)].deckId = newDeck
                       /\ themes'[newTheme(j)].title = doc.themes[j].rec.title
                 /\ \A k \in {x \in 1..nC : newCard(x) \in DOMAIN flashcards'} :
                       LET card == doc.flashcards[k].rec
                           match == {j \in 1..nT : doc.themes[j].id = card.themeId}
                       IN  /\ flashcards'[newCard(k)].deckId = newDeck
                           /\ flashcards'[newCard(k)].front.text = card.front.text
                           /\ flashcards'[newCard(k)].themeId
                                 = IF card.themeId # 0 /\ match # {}
                                   THEN newTheme(CHOOSE j \in match : TRUE)
                                   ELSE 0
      ]_vars

\* importDeckFromJson has just returned a deck for a document whose
\* flashcard had the identifier of the document's theme as themeId, and the
\* flashcard stored for it is in the theme stored for that theme.
C31_Witness ==
    /\ last.op = "importDeck"
    /\ last.ok
    /\ \E k \in DOMAIN last.exp.flashcards, j \in DOMAIN last.exp.themes :
          last.exp.flashcards[k].rec.themeId = last.exp.themes[j].id
    /\ \E c \in DOMAIN flashcards :
          /\ flashcards[c].deckId = last.id
          /\ flashcards[c].themeId \in DOMAIN themes
          /\ themes[flashcards[c].themeId].deckId = last.id

-----------------------------------------------------------------------------
(* Properties of reads (SpecReads).                                        *)

ReadKinds == {"getDeck", "getTheme", "getFlashcard"}

\* C29: getDeck, getTheme, getFlashcard and the listings by parent, and each
\* completion of a getImage or getAudio that their closures await, the last
\* one included, leave the Record Store and the Media Store as they were.
C29_ReadsDoNotWrite ==
    [][(\/ \E deckId \in DOMAIN decks : GetDeck(deckId) \/ ListByParent(deckId)
        \/ \E themeId \in DOMAIN themes : GetTheme(themeId)
        \/ \E flashcardId \in DOMAIN flashcards : GetFlashcard(flashcardId)
        \/ \E i \in DOMAIN tasks : TaskStep(i) /\ tasks[i].kind \in ReadKinds) =>
          /\ RecordStore' = RecordStore
          /\ MediaStore' = MediaStore
      ]_vars

\* getDeck, called with nothing pending, returned a deck whose cover blob
\* is in the Media Store, and the closure that reads the blob has run to
\* its end.
C29_Witness ==
    /\ last.op = "getDeck"
    /\ last.ok
    /\ last.quiet
    /\ last.arg \in DOMAIN decks
    /\ decks[last.arg].coverImageId \in DOMAIN images
    /\ tasks = <<>>

-----------------------------------------------------------------------------
(* Properties of timestamps (SpecTime).                                    *)

\* C32: updateDeck and updateFlashcard that return store the record with
\* updatedAt equal to the time of the call, whatever updatedAt the patch
\* carries, and no step, the completion of a deferred write included,
\* makes the updatedAt of a stored record smaller.
C32_UpdatedAtGrows ==
    [][/\ \A deckId \in DOMAIN decks, updates \in DeckPatches \cup StampedPatches :
             (UpdateDeck(deckId, updates) /\ last'.ok) => decks'[deckId].updatedAt = now
       /\ \A flashcardId \in DOMAIN flashcards, updates \in CardPatches :
             (UpdateFlashcard(flashcardId, updates) /\ last'.ok) =>
                flashcards'[flashcardId].updatedAt = now
       /\ \A coll \in {"decks", "flashcards"} :
             \A id \in DOMAIN World[coll] \cap DOMAIN World'[coll] :
                World'[coll][id].updatedAt >= World[coll][id].updatedAt
      ]_vars

-----------------------------------------------------------------------------
(* Properties of records (SpecRecords).                                    *)

SameOn(rec, data, fields) == \A f \in fields : rec[f] = data[f]

DeckFields ==
    {"title", "description", "coverImage", "coverImageId", "tags", "authorId",
     "authorName", "isPublic", "isShared", "originalId", "isPublished"}

ThemeFields == {"deckId", "title", "description", "coverImage", "coverImageId"}

CardFields == {"deckId", "themeId", "front", "back", "lastReviewed", "reviewCount", "difficulty"}

SessionFields ==
    {"deckId", "userId", "endTime", "cardsReviewed", "correctAnswers", "incorrectAnswers"}

\* The fields of an input that the caller gave a value.
Supplied(data, none, fields) == {f \in fields : data[f] # none[f]}

\* What a create call (the state w2 it returns in, the record id) leaves to
\* read in coll once its microtasks have run: the record it returned, equal
\* to data on fields.
ReadBack(w2, coll, data, fields) ==
    /\ w2.ret.id \in DOMAIN World'[coll]
    /\ World'[coll][w2.ret.id] = w2[coll][w2.ret.id]
    /\ SameOn(World'[coll][w2.ret.id], data, fields)

\* Every create step leaves its record to read, with the caller's value on
\* the fields supplied other than those of notKept.
CreatesReadBack(notKept) ==
    /\ \A deckData \in RecordDecks :
          (CreateDeck(deckData) /\ last'.ok) =>
             /\ getDeck(World', last'.id) = last'.id
             /\ ReadBack(createDeck(World, deckData), "decks", deckData,
                         Supplied(deckData, NoDeckData, DeckFields) \ notKept)
    /\ \A d \in DOMAIN decks, themeData \in RecordThemes :
          LET data == [themeData EXCEPT !.deckId = d]
          IN  CreateTheme(data) =>
                 /\ getTheme(World', last'.id) = last'.id
                 /\ ReadBack(createTheme(World, data), "themes", data,
                             Supplied(data, NoThemeData, ThemeFields) \ notKept)
    /\ \A d \in DOMAIN decks, flashcardData \in RecordCards, t \in {0} \cup DOMAIN themes :
          LET data == [flashcardData EXCEPT !.deckId = d, !.themeId = t]
          IN  CreateFlashcard(data) =>
                 /\ getFlashcard(World', last'.id) = last'.id
                 /\ ReadBack(createFlashcard(World, data), "flashcards", data,
                             Supplied(data, NoCardData, CardFields) \ notKept)
    /\ \A d \in DOMAIN decks, u \in DOMAIN users, sessionData \in SessionInputs :
          LET data == [sessionData EXCEPT !.deckId = d, !.userId = u]
          IN  CreateStudySession(data) =>
                 /\ \E k \in DOMAIN getStudySessionsByDeck(World', d) :
                       getStudySessionsByDeck(World', d)[k] = last'.id
                 /\ ReadBack(createStudySession(World, data), "studySessions", data,
                             Supplied(data, NoSessionData, SessionFields) \ notKept)

C30_DeleteThemeKeepsCards ==
    [][\A themeId \in DOMAIN themes :
          DeleteTheme(themeId) =>
             /\ themes' = Remove(themes, {themeId})
             /\ flashcards' = flashcards
             /\ <<users, sessionId, decks, shareCodes, studySessions>>'
                   = <<users, sessionId, decks, shareCodes, studySessions>>
             /\ MediaStore' = MediaStore
             /\ getFlashcardsByTheme(World', themeId) = getFlashcardsByTheme(World, themeId)
             /\ themes[themeId].coverImageId # 0 =>
                   /\ Len(tasks') = Len(tasks) + 1
                   /\ tasks'[Len(tasks')].ops
                         = <<DeleteOp("images", themes[themeId].coverImageId)>>
      ]_vars

\* deleteTheme has just returned true for a theme that had a cover
\* reference, and a stored flashcard still has the theme as its themeId.
C30_Witness ==
    /\ last.op = "deleteTheme"
    /\ last.ok
    /\ last.arg \notin DOMAIN themes
    /\ \E c \in DOMAIN flashcards : flashcards[c].themeId = last.arg
    /\ \E i \in DOMAIN tasks : tasks[i].kind = "deleteTheme" /\ tasks[i].id = last.arg

\* C20: every stored flashcard whose themeId is set refers to a stored theme
\* of the flashcard's deck.
C20_CardThemeExists ==
    \A c \in DOMAIN flashcards :
        flashcards[c].themeId # 0 =>
            /\ flashcards[c].themeId \in DOMAIN themes
            /\ themes[flashcards[c].themeId].deckId = flashcards[c].deckId

-----------------------------------------------------------------------------
(* Properties of deferred media writes (SpecMedia, SpecLost).              *)

\* record.coverImage and the like, for the field that holds its reference.
InlineField(rec, field) ==
    IF field = "coverImageId" THEN rec.coverImage ELSE Inline(rec, field)

RefField(rec, field) ==
    IF field = "coverImageId" THEN rec.coverImageId ELSE Ref(rec, field)

\* The object store that holds the blob of a reference field.
StoreOf(field) == IF field = "coverImageId" THEN "images" ELSE PartOf(field)

\* The media fields of the stored records: collection, record, reference field.
MediaSlots ==
    {<<"decks", d, "coverImageId">> : d \in DOMAIN decks}
    \cup {<<"themes", t, "coverImageId">> : t \in DOMAIN themes}
    \cup {<<"flashcards", x[1], MediaFields[x[2]]>> : x \in (DOMAIN flashcards) \X (1..4)}

\* C14: once every deferred write has completed, every stored record that
\* holds inline-encoded media (stores do not fail here, and records are only
\* created and updated) carries a reference for it whose blob is in the
\* Media Store.
C14_InlineGetsReference ==
    tasks = <<>> =>
        \A slot \in MediaSlots :
            LET rec == World[slot[1]][slot[2]]
            IN  isBase64String(InlineField(rec, slot[3])) =>
                   /\ RefField(rec, slot[3]) # 0
                   /\ Retrievable(<<StoreOf(slot[3]), RefField(rec, slot[3])>>)

\* C15: the write that ends a closure leaves every record other than the one
\* that started the closure as it was: same presence, same value.
C15_DeferredWriteFrame ==
    [][\A i \in DOMAIN tasks :
          TaskStep(i) =>
             \A coll \in {"decks", "themes", "flashcards"} :
                \A k \in (DOMAIN World[coll] \cup DOMAIN World'[coll])
                            \ (IF coll = tasks[i].coll THEN {tasks[i].id} ELSE {}) :
                   /\ k \in DOMAIN World[coll]
                   /\ k \in DOMAIN World'[coll]
                   /\ World'[coll][k] = World[coll][k]
      ]_vars

\* The text a patch changes: a deck's or a theme's title, a flashcard's front text.
TextOf(coll, rec) == IF coll = "flashcards" THEN rec.front.text ELSE rec.title

\* The closure's last request is a store: its completion is followed by the
\* closure's write.
LastStore(t) == Len(t.ops) = 1 /\ Head(t.ops).op = "store"

\* C16: when the last store of a create or updateFlashcard closure completes
\* and the record's text is no longer the one that call stored, because an
\* update was made since, the write puts the call's text back: the update
\* is lost.
C16_LostUpdate ==
    [][\A i \in DOMAIN tasks :
          LET t == tasks[i]
          IN  (/\ TaskStep(i)
               /\ t.kind \in {"createDeck", "createTheme", "createFlashcard", "updateFlashcard"}
               /\ LastStore(t)
               /\ t.id \in DOMAIN World[t.coll]
               /\ TextOf(t.coll, World[t.coll][t.id]) # TextOf(t.coll, t.snap[t.id])) =>
                 /\ t.id \in DOMAIN World'[t.coll]
                 /\ TextOf(t.coll, World'[t.coll][t.id]) = TextOf(t.coll, t.snap[t.id])
      ]_vars

\* The last call was an updateDeck of the title alone, it returned the deck,
\* nothing is pending, and the stored deck, which has its cover reference,
\* does not have the new title.
C16_Witness ==
    /\ last.op = "updateDeck"
    /\ last.keys = {"title"}
    /\ last.ok
    /\ tasks = <<>>
    /\ last.arg \in DOMAIN decks
    /\ decks[last.arg].coverImageId # 0
    /\ decks[last.arg].title # "T2"

\* C17: when the store of an updateDeck or updateTheme closure completes and
\* the record is as that call stored it, the record keeps the title the call
\* gave it.
C17_PatchSurvivesCover ==
    [][\A i \in DOMAIN tasks :
          LET t == tasks[i]
          IN  (/\ TaskStep(i)
               /\ t.kind \in {"updateDeck", "updateTheme"}
               /\ LastStore(t)
               /\ t.id \in DOMAIN World[t.coll]
               /\ World[t.coll][t.id] = t.snap[t.id]) =>
                 /\ t.id \in DOMAIN World'[t.coll]
                 /\ World'[t.coll][t.id].title = World[t.coll][t.id].title
      ]_vars

\* C19: a stored record that has a reference for a media field holds no
\* inline-encoded value for that field.
C19_NoInlineBesideReference ==
    \A slot \in MediaSlots :
        LET rec == World[slot[1]][slot[2]]
        IN  RefField(rec, slot[3]) # 0 => ~isBase64String(InlineField(rec, slot[3]))

\* C25: when an update that gave a new inline value to a media field whose
\* reference the record held was made with no closure pending, and its
\* deferred work has completed, the blob of that reference is no longer in
\* the Media Store.
C25_OldBlobReplaced ==
    (/\ last.op \in {"updateDeck", "updateTheme", "updateFlashcard"}
     /\ last.ok
     /\ last.quiet
     /\ tasks = <<>>) =>
        \A ref \in last.owned : ~Retrievable(ref)

-----------------------------------------------------------------------------
(* Properties of Media Store failures (SpecFail).                          *)

\* C12: a Media Store operation that fails settles with its sentinel and
\* never with a rejection, whether the database could not be opened or the
\* request failed inside its transaction.
C12_MediaNeverRejects ==
    last.op \in {"store", "exists", "delete"} => ~last.threw

\* C18: when the store that a create or an update awaits fails, and the
\* record is still as that call stored it, the record keeps the reference it
\* had and holds the inline value the caller supplied.
C18_FailedStoreKeepsInline ==
    [][\A i \in DOMAIN tasks, how \in Failures :
          LET t == tasks[i]
              o == Head(t.ops)
          IN  (/\ MediaFails(i, how)
               /\ o.op = "store"
               /\ t.id \in DOMAIN World[t.coll]
               /\ World[t.coll][t.id] = t.snap[t.id]) =>
                 /\ t.id \in DOMAIN World'[t.coll]
                 /\ RefField(World'[t.coll][t.id], o.field)
                       = RefField(World[t.coll][t.id], o.field)
                 /\ InlineField(World'[t.coll][t.id], o.field) = o.src
      ]_vars

\* C33: no connection to the database is left open by the Media Store
\* operations that have completed, whether they succeeded or failed.
C33_NoConnectionLeftOpen ==
    conns = 0

-----------------------------------------------------------------------------
(* Properties of the migration (SpecMigrate).                              *)

\* C6: when the migration has been run twice, each run started with no
\* closure pending, and every closure has run to its end, the second run
\* returned 0 and every field that was inline-only before the first run has
\* a reference to a blob of the Media Store that reads back as the payload.
C6_MigrationTwice ==
    (mig.runs = 2 /\ ~mig.running /\ tasks = <<>>) =>
        /\ mig.result = 0
        /\ \A o \in mig.orig :
              o.id \in DOMAIN flashcards =>
                 LET ref == Ref(flashcards[o.id], o.field)
                     part == IF PartOf(o.field) = "images" THEN images ELSE audio
                 IN  /\ ref \in DOMAIN part
                     /\ blobToBase64(part[ref]) = o.payload

\* C35: when a run of the migration has returned and every closure has run
\* to its end, every blob that was put into the Media Store since the run
\* started is referenced by a stored record.
C35_MigrationLeavesNoOrphan ==
    (mig.runs > 0 /\ ~mig.running /\ tasks = <<>>) =>
        (Blobs(World) \ mig.had) \subseteq AllRefs(World)

\* C36: when a run of the migration has returned, it has left no flashcard
\* unvisited and the number it returned is the number of flashcards it
\* updated, whether or not one of its stores failed.
C36_CountIsCardsUpdated ==
    (mig.runs > 0 /\ ~mig.running) =>
        /\ mig.todo = <<>>
        /\ mig.result = mig.count

====
